---- MODULE Spec2Model ----
(***************************************************************************)
(* Model of the TikTok video analyzer's task pipeline:                     *)
(*   - the task store (TaskManager / SyncTaskManager over Redis),          *)
(*   - the API handlers create_analysis_task and cancel_task,              *)
(*   - the Celery job analyze_video_task with its retries.                 *)
(* Every Redis command (GET, SETEX) is one step, so that handlers running  *)
(* in the API process and in the Celery worker interleave as they do on    *)
(* the real store.                                                         *)
(***************************************************************************)
EXTENDS Integers, Sequences, FiniteSets, TLC

(***************************************************************************)
(* Bounds of the model                                                     *)
(***************************************************************************)
\* number of create requests rejected by the URL validation
MaxRejects == 1
\* generate_script requests per task id
MaxScriptRequests == 3
\* sync_analysis calls made for one task id against one destination
MaxSyncCalls == 3

(***************************************************************************)
(* Program constants                                                       *)
(***************************************************************************)
\* @celery_app.task(bind=True, max_retries=3, ...)
max_retries == 3
\* @celery_app.task(..., default_retry_delay=60)
default_retry_delay == 60

\* Task identifiers handed out by _generate_task_id.  Every operation of the
\* program works on the key of one task and on nothing else.
TaskIds == {"task_1"}

\* Python's None for an optional string field / an optional int argument
Null == "<None>"
NoProgress == -1

\* TaskStatus enum
PENDING == "pending"
DOWNLOADING == "downloading"
ANALYZING == "analyzing"
SYNCING == "syncing"
COMPLETED == "completed"
FAILED == "failed"

\* Inputs of a create request
Urls == {"https://www.tiktok.com/@x/video/123", "https://example.com/v/123"}
\* URLs of other sites that mention an allowed domain outside the host
LookalikeUrls == {"https://example.com/?ref=tiktok.com"}
CallbackUrls == {Null, "https://hook.example/cb"}
Prompts == {Null}
\* Error texts an adapter can return in its "error" entry
\* the documents the script generator may return
ScriptDocs == {"script A", "script B"}
ErrMsgs == {"timeout", "Video unavailable"}
\* Values the adapters return on success
VideoPath == "/app/storage/videos/123.mp4"
AnalysisOut == "analysis"
FeishuRecordId == "rec_1"

(***************************************************************************)
(* Pure helpers                                                            *)
(***************************************************************************)
\* Python's `d in s` on strings
Contains(s, d) ==
    \E i \in 1..(Len(s) - Len(d) + 1) : SubSeq(s, i, i + Len(d) - 1) = d

\* any(domain in request.url for domain in ["tiktok.com", "douyin.com"])
url_is_valid(url) ==
    \E d \in {"tiktok.com", "douyin.com"} : Contains(url, d)

\* (variant: the handler goes on to .delay when create_task has failed)
after_create_task_ignoring(returned) == "stored"

\* where create_analysis_task continues after `await tm.create_task(...)`:
\* at analyze_video_task.delay when it returned, nowhere when it raised
after_create_task(returned) == IF returned THEN "stored" ELSE "failed"

\* (variant: the record starts in Downloading and loses the prompt)
create_task_record_started(tid, url, cb, prompt, feishu, notion, ts) ==
    [ task_id |-> tid,
      url |-> url,
      callback_url |-> cb,
      analysis_prompt |-> Null,
      sync_to_feishu |-> feishu,
      sync_to_notion |-> notion,
      status |-> "downloading",
      progress |-> 10,
      message |-> "Task created, waiting to start",
      created_at |-> ts,
      updated_at |-> ts,
      result |-> Null,
      error |-> Null,
      video_path |-> Null,
      feishu_record_id |-> Null,
      notion_page_id |-> Null ]

\* the record create_task serialises
create_task_record(tid, url, cb, prompt, feishu, notion, ts) ==
    [ task_id |-> tid,
      url |-> url,
      callback_url |-> cb,
      analysis_prompt |-> prompt,
      sync_to_feishu |-> feishu,
      sync_to_notion |-> notion,
      status |-> PENDING,
      progress |-> 0,
      message |-> "Task created, waiting to start",
      created_at |-> ts,
      updated_at |-> ts,
      result |-> Null,
      error |-> Null,
      video_path |-> Null,
      feishu_record_id |-> Null,
      notion_page_id |-> Null ]

\* the fields of a record that are set when the task is created
CreationFields ==
    {"task_id", "url", "callback_url", "analysis_prompt", "sync_to_feishu",
     "sync_to_notion", "created_at"}

\* the keyword arguments of update_task, all defaulting to None
NoUpdate ==
    [ status |-> Null, progress |-> NoProgress, message |-> Null,
      result |-> Null, error |-> Null, video_path |-> Null,
      feishu_record_id |-> Null, notion_page_id |-> Null ]

\* (variant: the update stamps created_at as well)
update_task_merge_restamping(rec, u, ts) ==
    [ rec EXCEPT
        !.created_at = ts,
        !.updated_at = ts,
        !.status = IF u.status # Null THEN u.status ELSE @,
        !.progress = IF u.progress # NoProgress THEN u.progress ELSE @,
        !.message = IF u.message # Null THEN u.message ELSE @,
        !.result = IF u.result # Null THEN u.result ELSE @,
        !.error = IF u.error # Null THEN u.error ELSE @,
        !.video_path = IF u.video_path # Null THEN u.video_path ELSE @,
        !.feishu_record_id =
            IF u.feishu_record_id # Null THEN u.feishu_record_id ELSE @,
        !.notion_page_id =
            IF u.notion_page_id # Null THEN u.notion_page_id ELSE @ ]

\* the merge of update_task: only the arguments that are not None are
\* assigned, updated_at is always refreshed
update_task_merge(rec, u, ts) ==
    [ rec EXCEPT
        !.updated_at = ts,
        !.status = IF u.status # Null THEN u.status ELSE @,
        !.progress = IF u.progress # NoProgress THEN u.progress ELSE @,
        !.message = IF u.message # Null THEN u.message ELSE @,
        !.result = IF u.result # Null THEN u.result ELSE @,
        !.error = IF u.error # Null THEN u.error ELSE @,
        !.video_path = IF u.video_path # Null THEN u.video_path ELSE @,
        !.feishu_record_id =
            IF u.feishu_record_id # Null THEN u.feishu_record_id ELSE @,
        !.notion_page_id =
            IF u.notion_page_id # Null THEN u.notion_page_id ELSE @ ]

\* (variant: `if progress:` in place of `if progress is not None`)
async_update_task_merge_truthy(rec, u, ts) ==
    [ rec EXCEPT
        !.updated_at = ts,
        !.status = IF u.status # Null THEN u.status ELSE @,
        !.progress = IF u.progress \notin {NoProgress, 0}
                     THEN u.progress ELSE @,
        !.message = IF u.message # Null THEN u.message ELSE @,
        !.result = IF u.result # Null THEN u.result ELSE @,
        !.error = IF u.error # Null THEN u.error ELSE @,
        !.video_path = IF u.video_path # Null THEN u.video_path ELSE @,
        !.feishu_record_id =
            IF u.feishu_record_id # Null THEN u.feishu_record_id ELSE @,
        !.notion_page_id =
            IF u.notion_page_id # Null THEN u.notion_page_id ELSE @ ]

\* the merge of TaskManager.update_task, the coroutine the API uses
async_update_task_merge(rec, u, ts) ==
    [ rec EXCEPT
        !.updated_at = ts,
        !.status = IF u.status # Null THEN u.status ELSE @,
        !.progress = IF u.progress # NoProgress THEN u.progress ELSE @,
        !.message = IF u.message # Null THEN u.message ELSE @,
        !.result = IF u.result # Null THEN u.result ELSE @,
        !.error = IF u.error # Null THEN u.error ELSE @,
        !.video_path = IF u.video_path # Null THEN u.video_path ELSE @,
        !.feishu_record_id =
            IF u.feishu_record_id # Null THEN u.feishu_record_id ELSE @,
        !.notion_page_id =
            IF u.notion_page_id # Null THEN u.notion_page_id ELSE @ ]

\* names of the optional fields an update sets
FieldsSet(u) ==
    {f \in {"result", "error", "video_path", "feishu_record_id",
            "notion_page_id"} : u[f] # Null}

\* (variant: the adapter's message is dropped for the default text)
download_failure_default(err) == "Download failed: Unknown error"

\* raise Exception(f"Download failed: {download_result.get('error', ...)}")
download_failure(err) == "Download failed: " \o err
\* raise Exception(f"Analysis failed: {ai_result.get('error', ...)}")
analysis_failure(err) == "Analysis failed: " \o err

(***************************************************************************)
(* State                                                                   *)
(***************************************************************************)
VARIABLES
    store,      \* Redis: task id -> task record, for the keys that exist
    queue,      \* Celery broker: the jobs waiting to be delivered
    now,        \* logical time returned by datetime.now()
    api,        \* create_analysis_task: per task id, how far the handler is
    rejects,    \* number of create requests answered 400
    w,          \* analyze_video_task: the worker's locals, per task
    c,          \* cancel_task: the handler's locals, per task
    attempts,   \* number of executions of analyze_video_task, per task
    log,        \* what the current attempt has done so far, per task
    cancelled,  \* a cancellation was written over the Pending record while
                \* the job was still in the queue
    fieldsSet,  \* optional fields some completed update_task call has set
    downloadFailures,  \* number of attempts whose download failed, per task
    analysed,   \* the analysis adapter has succeeded in some attempt
    urlPool,    \* the URLs clients submit
    poll,       \* get_task_status: the latest answer, per task id
    scripts,    \* the script records in Redis: video_analysis_id -> record
    scriptIds,  \* the number of script ids save_script has made
    g,          \* generate_script: the request being served, per task id
    answers,    \* generate_script: the answers given so far, per task id
    settings,   \* the configuration
    ttl,        \* days the key of a task has left to live, 0 without a key
    age,        \* days since the last successful write of a task's key
    request,    \* create_analysis_task: the request served for an id and
                \* the time create_task stamped on its record
    table,      \* per destination and task id, the number of records the
                \* destination holds with that task id
    sync,       \* the sync_analysis call under way, per destination and id
    notified,   \* the callback POSTs made for a task, over all its attempts
    loop,       \* generate_with_retry: the locals of its loop and its calls
    files,      \* the files in the storage directories: TRUE when the
                \* file is older than the cutoff of cleanup_old_files
    sweep,      \* the cleanup_old_files executions
    upd         \* the update_task call made on both task managers

vars == <<store, queue, now, api, rejects, w, c, attempts, log,
          cancelled, fieldsSet, downloadFailures, analysed, urlPool, poll,
          scripts, scriptIds, g, answers, settings, ttl, age, request,
          table, sync, notified, loop, files, sweep, upd>>

\* the state of the status endpoint and of the clients
clientVars == <<urlPool, poll>>

\* the lifetime of the keys of the tasks
ttlVars == <<ttl, age>>

\* the destinations of the results and the calls that write to them
syncVars == <<table, sync>>

\* the state of the functions that are checked on their own
auxVars == <<loop, files, sweep, upd>>

\* the state of the script endpoint
scriptVars == <<scripts, scriptIds, g, answers, settings>>

\* task_ttl = 86400 * 7 seconds, in days
task_ttl == 7

\* the age of a key that was never written
NeverWritten == -1

\* (variant: a write keeps the lifetime the key had left)
ttl_after_setex_keeping(left) == IF left > 0 THEN left ELSE task_ttl

\* r.setex(key, self.task_ttl, ...): the key gets the full lifetime
ttl_after_setex(left) == task_ttl

\* SyncTaskManager: self.task_ttl = 86400 * 7 seconds, in days
sync_task_ttl == 7

\* self.redis.setex(key, self.task_ttl, ...) of SyncTaskManager
sync_ttl_after_setex(left) == sync_task_ttl

\* TaskManager.update_task as a whole, on what its GET returns, with the
\* lifetime the key has left: the return value, what the key holds after
\* it and the lifetime the key has then
TaskManager_update_task(data, u, ts, left) ==
    IF data = <<>>
    THEN [ret |-> FALSE, data |-> <<>>, ttl |-> left]
    ELSE [ret |-> TRUE,
          data |-> <<async_update_task_merge(data[1], u, ts)>>,
          ttl |-> ttl_after_setex(left)]

\* SyncTaskManager.update_task as a whole
SyncTaskManager_update_task(data, u, ts, left) ==
    IF data = <<>>
    THEN [ret |-> FALSE, data |-> <<>>, ttl |-> left]
    ELSE [ret |-> TRUE,
          data |-> <<update_task_merge(data[1], u, ts)>>,
          ttl |-> sync_ttl_after_setex(left)]

\* r.get(key) leaves the lifetime of the key alone
ttl_after_get(left) == left

\* the destinations a result is synced to: FeishuBitableSync, NotionSync
Destinations == {"feishu", "notion"}

\* how an HTTP request to a destination can end: answered as asked, or
\* with an exception, an error status or an error code
RequestOutcomes == {"ok", "error"}

\* the record id a destination hands out
RecordIds == [feishu |-> FeishuRecordId, notion |-> "page_1"]

\* find_record_by_task_id / find_page_by_task_id against a destination
\* holding n records of the task: the id of the first one, or None when
\* there is none and also when the search request failed
find_record_by_task_id(d, n, outcome) ==
    IF outcome = "ok" /\ n > 0 THEN RecordIds[d] ELSE Null

\* create_record / create_page: one more record at the destination when
\* the request is answered; an exception otherwise, which sync_analysis
\* turns into {"success": False}
create_record(d, n, outcome) ==
    IF outcome = "ok"
    THEN [count |-> n + 1,
          result |-> [success |-> TRUE, record_id |-> RecordIds[d]]]
    ELSE [count |-> n, result |-> [success |-> FALSE, record_id |-> Null]]

\* update_record / update_page: the record is overwritten in place
update_record(d, n, record_id, outcome) ==
    IF outcome = "ok"
    THEN [count |-> n,
          result |-> [success |-> TRUE, record_id |-> record_id]]
    ELSE [count |-> n, result |-> [success |-> FALSE, record_id |-> Null]]

\* the second half of sync_analysis: update if found else create
upsert(d, n, existing_record_id, outcome) ==
    IF existing_record_id # Null
    THEN update_record(d, n, existing_record_id, outcome)
    ELSE create_record(d, n, outcome)

\* the generate_script requests that can be served at the same time
Handlers == {1, 2}

\* generate_with_retry(..., max_retries: int = 3)
generate_max_retries == 3

\* what ScriptGenerator.generate returns: a script, or an error text
GenerateErrors ==
    {"API request failed: 500", "Empty text in response",
     "Failed to parse response: no JSON"}
GenerateResults ==
    {[success |-> TRUE, script |-> doc, error |-> Null] : doc \in ScriptDocs}
    \cup {[success |-> FALSE, script |-> Null, error |-> e] :
             e \in GenerateErrors}

\* (variant: the same pause after every failed attempt)
backoff_constant(attempt) == 5

\* time.sleep(5 * (attempt + 1))
backoff(attempt) == 5 * (attempt + 1)

\* (variant: a pause after the last attempt as well)
sleeps_after_always(attempt) == TRUE

\* if attempt < max_retries - 1
sleeps_after(attempt) == attempt < generate_max_retries - 1

\* the result after the loop: the text names the number of attempts and
\* the error of the last one
exhausted_result(last_error) ==
    [ success |-> FALSE, script |-> Null,
      error |-> "Failed after " \o ToString(generate_max_retries)
                \o " attempts. Last error: " \o last_error ]

\* generate_with_retry before its first attempt: calls holds what each
\* generate call returned, sleeps the seconds of each time.sleep
LoopInit ==
    [ pc |-> "call", attempt |-> 0, calls |-> <<>>, sleeps |-> <<>>,
      last_error |-> Null, result |-> <<>> ]

\* the storage directories cleanup_old_files sweeps, in its order:
\* settings.video_storage_path, settings.analysis_storage_path
StorageDirs == <<"videos", "analysis">>

\* the files the adapters can leave in them
FileNames == {"videos/a.mp4", "videos/b.mp4", "analysis/a.json"}

\* the directory of a file
dir_of(f) == IF SubSeq(f, 1, 7) = "videos/" THEN "videos" ELSE "analysis"

\* the cleanup_old_files executions that can run at the same time
Sweepers == {1, 2}

\* cleanup_old_files before it starts: dir is the directory being swept
\* (0 before the first), listed what iterdir returned and is still to be
\* visited, file the entry being visited
SweepInit ==
    [ pc |-> "idle", dir |-> 0, listed |-> {}, file |-> Null,
      deleted_count |-> 0 ]

\* a sync_analysis call before it starts: calls counts the calls made
SyncCallInit ==
    [pc |-> "idle", existing_record_id |-> Null, calls |-> 0,
     result |-> <<>>]

\* r.get(key): the record as a sequence of length 0 (no key) or 1
redis_get(t) == IF t \in DOMAIN store THEN <<store[t]>> ELSE <<>>

\* r.setex(key, ttl, value)
redis_setex(t, rec) == (t :> rec) @@ store

\* r.delete / expiry of the key
redis_expire(t) == [k \in DOMAIN store \ {t} |-> store[k]]

\* the locals of analyze_video_task before the job runs.  pc is the place
\* the job has reached; got tells whether the update_task call at pc has
\* done its GET (buf holds what it read) and still has to do its SETEX.
WorkerInit ==
    [ pc |-> "idle", retries |-> 0, url |-> Null, sync_to_feishu |-> FALSE,
      callback_url |-> Null, video_path |-> Null, analysis_result |-> Null,
      feishu_record_id |-> Null, error_msg |-> Null, adapter_error |-> Null,
      got |-> FALSE, buf |-> <<>>, outcome |-> Null ]

\* the locals of cancel_task before a request: seen is the status its
\* get_task returned, response the HTTP status it answered.  One request per
\* task is in flight at a time; c keeps the answer of the latest one.
CancelInit ==
    [ pc |-> "idle", seen |-> Null, buf |-> <<>>, response |-> 0,
      wrote |-> FALSE ]

\* no status request answered yet; "issued" tells whether the id had been
\* handed out by create_analysis_task when the request was made
PollInit == [answer |-> [code |-> 0, body |-> <<>>], issued |-> FALSE]

\* no generate_script request being served
ScriptRequestInit == [pc |-> "idle", task |-> <<>>, script |-> Null]

\* the state after construction, but for the configuration and the URLs the
\* clients will submit
InitState ==
    /\ store = [k \in {} |-> WorkerInit]
    /\ queue = {}
    /\ now = 0
    /\ api = [t \in TaskIds |-> "none"]
    /\ rejects = 0
    /\ w = [t \in TaskIds |-> WorkerInit]
    /\ c = [t \in TaskIds |-> CancelInit]
    /\ attempts = [t \in TaskIds |-> 0]
    /\ log = [t \in TaskIds |-> <<>>]
    /\ cancelled = [t \in TaskIds |-> FALSE]
    /\ fieldsSet = [t \in TaskIds |-> {}]
    /\ downloadFailures = [t \in TaskIds |-> 0]
    /\ analysed = [t \in TaskIds |-> FALSE]
    /\ poll = [t \in TaskIds |-> PollInit]
    /\ scripts = [k \in {} |-> Null]
    /\ scriptIds = 0
    /\ g = [t \in TaskIds |-> [h \in Handlers |-> ScriptRequestInit]]
    /\ answers = [t \in TaskIds |-> <<>>]
    /\ ttl = [t \in TaskIds |-> 0]
    /\ age = [t \in TaskIds |-> NeverWritten]
    /\ request = [t \in TaskIds |-> <<>>]
    /\ table = [k \in Destinations \X TaskIds |-> 0]
    /\ sync = [k \in Destinations \X TaskIds |-> SyncCallInit]
    /\ notified = [t \in TaskIds |-> <<>>]
    /\ loop = LoopInit
    /\ files = [f \in {} |-> FALSE]
    /\ sweep = [k \in Sweepers |-> SweepInit]
    /\ upd = <<>>

Init == InitState /\ urlPool = Urls /\ settings = [gemini_api_key |-> "key"]

(***************************************************************************)
(* create_analysis_task                                                    *)
(***************************************************************************)
\* The URL validation fails: HTTP 400, nothing else happens.  A rejected
\* request touches neither the store nor the queue, so it is enough to let
\* the rejected requests come before the accepted one.
create_analysis_task_reject ==
    /\ rejects < MaxRejects
    /\ \A t \in TaskIds : api[t] = "none"
    /\ \E url \in urlPool : ~url_is_valid(url)
    /\ rejects' = rejects + 1
    /\ UNCHANGED <<store, queue, now, api, w, c, attempts, log,
                   cancelled, fieldsSet, downloadFailures>>
    /\ UNCHANGED <<analysed, clientVars, scriptVars, ttlVars, request, syncVars, notified, auxVars>>

\* tm.create_task(...): fresh id, SETEX of the initial record
create_analysis_task_store(t) ==
    /\ api[t] = "none"
    /\ \E url \in urlPool, cb \in CallbackUrls, prompt \in Prompts,
          feishu \in BOOLEAN, notion \in BOOLEAN :
          /\ url_is_valid(url)
          /\ store' = redis_setex(t, create_task_record(t, url, cb, prompt,
                                                        feishu, notion,
                                                        now + 1))
          /\ request' = [request EXCEPT ![t] =
                            <<[url |-> url, callback_url |-> cb,
                               analysis_prompt |-> prompt,
                               sync_to_feishu |-> feishu,
                               sync_to_notion |-> notion,
                               created_at |-> now + 1]>>]
    /\ now' = now + 1
    /\ api' = [api EXCEPT ![t] = after_create_task(TRUE)]
    /\ ttl' = [ttl EXCEPT ![t] = ttl_after_setex(@)]
    /\ age' = [age EXCEPT ![t] = 0]
    /\ UNCHANGED <<queue, rejects, w, c, attempts, log, cancelled,
                   fieldsSet, downloadFailures>>
    /\ UNCHANGED <<analysed, clientVars, scriptVars, syncVars, notified, auxVars>>

\* task_manager.create_task raises (Redis cannot be reached): the handler
\* answers 500, nothing was stored and .delay is never reached
create_analysis_task_fail(t) ==
    /\ api[t] = "none"
    /\ \E url \in urlPool : url_is_valid(url)
    /\ api' = [api EXCEPT ![t] = after_create_task(FALSE)]
    /\ UNCHANGED <<store, queue, now, rejects, w, c, attempts, log,
                   cancelled, fieldsSet, downloadFailures>>
    /\ UNCHANGED <<analysed, clientVars, scriptVars, ttlVars, request, syncVars, notified, auxVars>>

\* analyze_video_task.delay(task_id)
create_analysis_task_enqueue(t) ==
    /\ api[t] = "stored"
    /\ queue' = queue \cup {[task_id |-> t, retries |-> 0, countdown |-> 0]}
    /\ api' = [api EXCEPT ![t] = "queued"]
    /\ UNCHANGED <<store, now, rejects, w, c, attempts, log,
                   cancelled, fieldsSet, downloadFailures>>
    /\ UNCHANGED <<analysed, clientVars, scriptVars, ttlVars, request, syncVars, notified, auxVars>>

(***************************************************************************)
(* analyze_video_task                                                      *)
(***************************************************************************)
\* the places of analyze_video_task that call tm.update_task
UpdateSites ==
    {"downloading", "downloaded", "analyzing", "analyzed", "syncing",
     "completed", "failed"}

\* (variant: the progress after the download is below the one before it)
progress_at_swapped(site) ==
    CASE site = "downloading" -> 10
      [] site = "downloaded" -> 5
      [] site = "analyzing" -> 40
      [] site = "analyzed" -> 70
      [] site = "syncing" -> 80
      [] site = "completed" -> 100
      [] OTHER -> NoProgress

\* the progress argument of the update_task call at a site
progress_at(site) ==
    CASE site = "downloading" -> 10
      [] site = "downloaded" -> 30
      [] site = "analyzing" -> 40
      [] site = "analyzed" -> 70
      [] site = "syncing" -> 80
      [] site = "completed" -> 100
      [] OTHER -> NoProgress

\* (variant: the analysis stage writes Downloading again)
status_at_revisiting(site) ==
    CASE site = "downloading" -> DOWNLOADING
      [] site = "analyzing" -> DOWNLOADING
      [] site = "syncing" -> SYNCING
      [] site = "completed" -> COMPLETED
      [] site = "failed" -> FAILED
      [] OTHER -> Null

\* the status argument of the update_task call at a site
status_at(site) ==
    CASE site = "downloading" -> DOWNLOADING
      [] site = "analyzing" -> ANALYZING
      [] site = "syncing" -> SYNCING
      [] site = "completed" -> COMPLETED
      [] site = "failed" -> FAILED
      [] OTHER -> Null

\* the message argument of the update_task call at a site
message_at(site, error_msg) ==
    CASE site = "downloading" -> "Downloading video from TikTok..."
      [] site = "downloaded" -> "Video downloaded successfully"
      [] site = "analyzing" -> "Analyzing video with Gemini AI..."
      [] site = "analyzed" -> "AI analysis completed"
      [] site = "syncing" -> "Syncing results to Feishu Bitable..."
      [] site = "completed" -> "Analysis completed successfully"
      [] OTHER -> "Task failed: " \o error_msg

\* (variant: the Failed update does not pass the error text)
update_args_without_error(l) ==
    [ NoUpdate EXCEPT
        !.status = status_at(l.pc),
        !.progress = progress_at(l.pc),
        !.message = message_at(l.pc, l.error_msg),
        !.video_path = IF l.pc = "downloaded" THEN l.video_path ELSE Null,
        !.result = IF l.pc \in {"analyzed", "completed"}
                   THEN l.analysis_result ELSE Null,
        !.feishu_record_id = IF l.pc = "completed"
                             THEN l.feishu_record_id ELSE Null ]

\* the keyword arguments of the update_task call the job is at
update_args(l) ==
    [ NoUpdate EXCEPT
        !.status = status_at(l.pc),
        !.progress = progress_at(l.pc),
        !.message = message_at(l.pc, l.error_msg),
        !.video_path = IF l.pc = "downloaded" THEN l.video_path ELSE Null,
        !.result = IF l.pc \in {"analyzed", "completed"}
                   THEN l.analysis_result ELSE Null,
        !.feishu_record_id = IF l.pc = "completed"
                             THEN l.feishu_record_id ELSE Null,
        !.error = IF l.pc = "failed" THEN l.error_msg ELSE Null ]

\* (variant: the sync stage is entered whatever the task asked for)
after_update_always_sync(l) ==
    CASE l.pc = "downloading" -> "download"
      [] l.pc = "downloaded" -> "analyzing"
      [] l.pc = "analyzing" -> "analyze"
      [] l.pc = "analyzed" -> "syncing"
      [] l.pc = "syncing" -> "sync"
      [] l.pc = "completed" ->
            IF l.callback_url # Null THEN "callback_completed" ELSE "return"
      [] OTHER ->
            IF l.callback_url # Null THEN "callback_failed" ELSE "retry"

\* (variant: the failure is notified on the last attempt only)
after_update_notifying_last(l) ==
    CASE l.pc = "downloading" -> "download"
      [] l.pc = "downloaded" -> "analyzing"
      [] l.pc = "analyzing" -> "analyze"
      [] l.pc = "analyzed" ->
            IF l.sync_to_feishu THEN "syncing" ELSE "completed"
      [] l.pc = "syncing" -> "sync"
      [] l.pc = "completed" ->
            IF l.callback_url # Null THEN "callback_completed" ELSE "return"
      [] OTHER ->
            IF l.callback_url # Null /\ l.retries >= max_retries
            THEN "callback_failed" ELSE "retry"

\* the json of a callback POST: the status with, for "completed", the
\* result and the record id of the job's locals (the error text of a
\* "failed" one is left out)
callback_json(status, l) ==
    [ status |-> status,
      result |-> IF status = COMPLETED THEN l.analysis_result ELSE Null,
      feishu_record_id |->
          IF status = COMPLETED THEN l.feishu_record_id ELSE Null ]

\* where the job continues after the update_task call at a site
after_update(l) ==
    CASE l.pc = "downloading" -> "download"
      [] l.pc = "downloaded" -> "analyzing"
      [] l.pc = "analyzing" -> "analyze"
      [] l.pc = "analyzed" ->
            IF l.sync_to_feishu THEN "syncing" ELSE "completed"
      [] l.pc = "syncing" -> "sync"
      [] l.pc = "completed" ->
            IF l.callback_url # Null THEN "callback_completed" ELSE "return"
      [] OTHER ->
            IF l.callback_url # Null THEN "callback_failed" ELSE "retry"

\* (variant: the comparison off by one)
retry_allowed_inclusive(retries) == retries <= max_retries

\* if self.request.retries < self.max_retries
retry_allowed(retries) == retries < max_retries

\* one entry of the attempt's log
Event(kind, what, progress) == [k |-> kind, a |-> what, p |-> progress]

\* (variant: a job that finds a downloaded video resumes at the analysis)
after_load_resuming(task_data) ==
    IF task_data = <<>> THEN "done"
    ELSE IF task_data[1].video_path # Null THEN "analyzing"
    ELSE "downloading"

\* (variant: the job goes on without the record)
after_load_proceeding(task_data) == "downloading"

\* where the job continues after tm.get_task: it returns when the record is
\* absent, else it starts the download stage
after_load(task_data) == IF task_data = <<>> THEN "done" ELSE "downloading"

\* A job is delivered: tm.get_task(task_id) and the locals read from it.
\* A retry is delivered default_retry_delay seconds after the failed
\* attempt; a cancel_task request (three Redis commands) that was in flight
\* during that attempt has answered by then.
analyze_video_task_load(t) ==
    /\ w[t].pc = "idle"
    /\ \E job \in queue :
          /\ job.task_id = t
          /\ job.countdown > 0 => c[t].pc = "idle"
          /\ queue' = queue \ {job}
          /\ w' = [w EXCEPT ![t] =
                    LET task_data == redis_get(t) IN
                    IF task_data = <<>>
                    THEN [WorkerInit EXCEPT !.pc = after_load(task_data),
                                            !.retries = job.retries,
                                            !.outcome = "not_found"]
                    ELSE [WorkerInit EXCEPT
                            !.pc = after_load(task_data),
                            !.retries = job.retries,
                            !.url = task_data[1].url,
                            !.sync_to_feishu = task_data[1].sync_to_feishu,
                            !.callback_url = task_data[1].callback_url]]
    /\ attempts' = [attempts EXCEPT ![t] = @ + 1]
    /\ log' = [log EXCEPT ![t] = <<>>]
    /\ UNCHANGED <<store, now, api, rejects, c, cancelled,
                   fieldsSet, downloadFailures>>
    /\ UNCHANGED <<analysed, clientVars, scriptVars, ttlVars, request, syncVars, notified, auxVars>>

\* SyncTaskManager.update_task, first half: data = self.redis.get(key)
update_task_get(t) ==
    /\ w[t].pc \in UpdateSites
    /\ ~w[t].got
    /\ w' = [w EXCEPT ![t].got = TRUE, ![t].buf = redis_get(t)]
    /\ UNCHANGED <<store, queue, now, api, rejects, c, attempts,
                   log, cancelled, fieldsSet, downloadFailures>>
    /\ UNCHANGED <<analysed, clientVars, scriptVars, ttlVars, request, syncVars, notified, auxVars>>

\* SyncTaskManager.update_task, second half: return False when the key was
\* missing, else merge the arguments into what was read and SETEX it
update_task_setex(t) ==
    /\ w[t].pc \in UpdateSites
    /\ w[t].got
    /\ LET u == update_args(w[t]) IN
       IF w[t].buf = <<>>
       THEN /\ log' = [log EXCEPT ![t] =
                          Append(@, Event("miss", u.status, u.progress))]
            /\ UNCHANGED <<store, now, fieldsSet, ttlVars>>
       ELSE /\ store' = redis_setex(t, update_task_merge(w[t].buf[1], u,
                                                         now + 1))
            /\ now' = now + 1
            /\ ttl' = [ttl EXCEPT ![t] = sync_ttl_after_setex(@)]
            /\ age' = [age EXCEPT ![t] = 0]
            /\ log' = [log EXCEPT ![t] =
                          Append(@, Event("write", u.status, u.progress))]
            /\ fieldsSet' = [fieldsSet EXCEPT ![t] = @ \cup FieldsSet(u)]
    /\ w' = [w EXCEPT ![t].pc = after_update(w[t]),
                      ![t].got = FALSE,
                      ![t].buf = <<>>]
    /\ UNCHANGED <<queue, api, rejects, c, attempts, cancelled,
                   downloadFailures>>
    /\ UNCHANGED <<analysed, clientVars, scriptVars, request, syncVars, notified, auxVars>>

\* (variant: the result of the download is not looked at)
after_download_unchecked(success) == "downloaded"

\* (variant: a failed download goes to the callback without the Failed
\* update)
after_download_notifying_first(success) ==
    IF success THEN "downloaded" ELSE "callback_failed"

\* where the job continues after the download call: the progress-30 update,
\* or the except branch, which starts with the Failed update
after_download(success) == IF success THEN "downloaded" ELSE "failed"

\* downloader.download(url) and the check of its "success" entry
download(t) ==
    /\ w[t].pc = "download"
    /\ \/ /\ w' = [w EXCEPT ![t].pc = after_download(TRUE),
                            ![t].video_path = VideoPath]
          /\ UNCHANGED downloadFailures
       \/ /\ \E err \in ErrMsgs :
                w' = [w EXCEPT ![t].pc = after_download(FALSE),
                               ![t].adapter_error = err,
                               ![t].error_msg = download_failure(err)]
          /\ downloadFailures' = [downloadFailures EXCEPT ![t] = @ + 1]
    /\ log' = [log EXCEPT ![t] = Append(@, Event("call", "download", 0))]
    /\ UNCHANGED <<store, queue, now, api, rejects, c, attempts,
                   cancelled, fieldsSet>>
    /\ UNCHANGED <<analysed, clientVars, scriptVars, ttlVars, request, syncVars, notified, auxVars>>

\* (variant: a failed analysis leaves the job waiting instead of raising)
after_analysis_hanging(success) == IF success THEN "analyzed" ELSE "waiting"

\* where the job continues after the analysis call: the progress-70 update,
\* or the except branch when the call reported a failure
after_analysis(success) == IF success THEN "analyzed" ELSE "failed"

\* analyzer.analyze(...) and the check of its "success" entry
analyze(t) ==
    /\ w[t].pc = "analyze"
    /\ \/ /\ w' = [w EXCEPT ![t].pc = after_analysis(TRUE),
                            ![t].analysis_result = AnalysisOut]
          /\ analysed' = [analysed EXCEPT ![t] = TRUE]
       \/ /\ \E err \in ErrMsgs :
                w' = [w EXCEPT ![t].pc = after_analysis(FALSE),
                               ![t].adapter_error = err,
                               ![t].error_msg = analysis_failure(err)]
          /\ UNCHANGED analysed
    /\ log' = [log EXCEPT ![t] = Append(@, Event("call", "analyze", 0))]
    /\ UNCHANGED <<store, queue, now, api, rejects, c, attempts,
                   cancelled, fieldsSet, downloadFailures>>
    /\ UNCHANGED <<clientVars, scriptVars, ttlVars, request, syncVars, notified, auxVars>>

\* what syncer.sync_analysis returns: it catches every exception itself
SyncResults ==
    {[success |-> TRUE, record_id |-> FeishuRecordId],
     [success |-> FALSE, record_id |-> Null]}

\* (variant: a failed sync raises and fails the attempt)
after_sync_raising(sync_result) ==
    IF sync_result.success THEN "completed" ELSE "failed"

\* (variant: the callback is posted right after the sync, before the
\* Completed update)
after_sync_notifying(sync_result) == "callback_completed"

\* where the job continues after the sync call: the Completed update,
\* whatever the call returned
after_sync(sync_result) == "completed"

\* syncer.sync_analysis(...): the record id is kept on success only; the
\* log entry of the call carries 1 when the sync failed
sync_analysis(t) ==
    /\ w[t].pc = "sync"
    /\ \E lookup \in RequestOutcomes, write \in RequestOutcomes :
        LET k == <<"feishu", t>>
            done == upsert("feishu", table[k],
                           find_record_by_task_id("feishu", table[k],
                                                  lookup),
                           write)
            sync_result == done.result
        IN
          /\ sync_result \in SyncResults
          /\ table' = [table EXCEPT ![k] = done.count]
          /\ w' = [w EXCEPT ![t].pc = after_sync(sync_result),
                            ![t].feishu_record_id =
                                IF sync_result.success
                                THEN sync_result.record_id ELSE Null]
          /\ log' = [log EXCEPT ![t] =
                       Append(@, Event("call", "feishu",
                                       IF sync_result.success THEN 0 ELSE 1))]
    /\ UNCHANGED <<store, queue, now, api, rejects, c, attempts,
                   cancelled, fieldsSet, downloadFailures>>
    /\ UNCHANGED <<analysed, clientVars, scriptVars, ttlVars, request, sync, notified, auxVars>>

\* (variant: a POST that raises fails the attempt)
after_callback_escalating(raised) == IF raised THEN "failed" ELSE "return"

\* where the job continues after the success callback: the exception of a
\* POST is caught and logged
after_callback(raised) == "return"

\* client.post(callback_url, ...) after Completed; the log entry carries 1
\* when the POST raised
callback_completed(t) ==
    /\ w[t].pc = "callback_completed"
    /\ \E raised \in BOOLEAN :
          /\ log' = [log EXCEPT ![t] =
                       Append(@, Event("callback", "completed",
                                       IF raised THEN 1 ELSE 0))]
          /\ w' = [w EXCEPT ![t].pc = after_callback(raised)]
    /\ notified' = [notified EXCEPT ![t] =
                       Append(@, callback_json(COMPLETED, w[t]))]
    /\ UNCHANGED <<store, queue, now, api, rejects, c, attempts,
                   cancelled, fieldsSet, downloadFailures>>
    /\ UNCHANGED <<analysed, clientVars, scriptVars, ttlVars, request,
                   syncVars, auxVars>>

\* return {"success": True, ...}
return_success(t) ==
    /\ w[t].pc = "return"
    /\ w' = [w EXCEPT ![t].pc = "done", ![t].outcome = "success"]
    /\ UNCHANGED <<store, queue, now, api, rejects, c, attempts,
                   log, cancelled, fieldsSet, downloadFailures>>
    /\ UNCHANGED <<analysed, clientVars, scriptVars, ttlVars, request, syncVars, notified, auxVars>>

\* client.post(callback_url, ...) after Failed
callback_failed(t) ==
    /\ w[t].pc = "callback_failed"
    /\ \E raised \in BOOLEAN :
          log' = [log EXCEPT ![t] =
                    Append(@, Event("callback", "failed",
                                    IF raised THEN 1 ELSE 0))]
    /\ w' = [w EXCEPT ![t].pc = "retry"]
    /\ notified' = [notified EXCEPT ![t] =
                       Append(@, callback_json(FAILED, w[t]))]
    /\ UNCHANGED <<store, queue, now, api, rejects, c, attempts,
                   cancelled, fieldsSet, downloadFailures>>
    /\ UNCHANGED <<analysed, clientVars, scriptVars, ttlVars, request,
                   syncVars, auxVars>>

\* raise self.retry(exc=e) while retries remain, else return the failure
retry_or_return(t) ==
    /\ w[t].pc = "retry"
    /\ IF retry_allowed(w[t].retries)
       THEN /\ queue' = queue \cup {[task_id |-> t,
                                      retries |-> w[t].retries + 1,
                                      countdown |-> default_retry_delay]}
            /\ log' = [log EXCEPT ![t] =
                         Append(@, Event("retry", "scheduled",
                                         default_retry_delay))]
            /\ w' = [w EXCEPT ![t].pc = "idle", ![t].outcome = "retry"]
       ELSE /\ w' = [w EXCEPT ![t].pc = "done", ![t].outcome = "failure"]
            /\ UNCHANGED <<queue, log>>
    /\ UNCHANGED <<store, now, api, rejects, c, attempts,
                   cancelled, fieldsSet, downloadFailures>>
    /\ UNCHANGED <<analysed, clientVars, scriptVars, ttlVars, request, syncVars, notified, auxVars>>

(***************************************************************************)
(* cancel_task                                                             *)
(***************************************************************************)
\* (variant: a task that is downloading can still be cancelled)
cancel_rejected_after_start(status) == status \notin {PENDING, DOWNLOADING}

\* if task.status not in [TaskStatus.PENDING]: raise HTTPException(400)
cancel_rejected(status) == status \notin {PENDING}

\* the keyword arguments of cancel_task's update_task call
cancel_args ==
    [ NoUpdate EXCEPT !.status = FAILED,
                      !.message = "Task cancelled by user",
                      !.error = "Cancelled" ]

\* task = await tm.get_task(task_id), then the 404 and the 400 checks
cancel_task_get(t) ==
    /\ c[t].pc = "idle"
    /\ c' = [c EXCEPT ![t] =
              IF t \notin DOMAIN store
              THEN [CancelInit EXCEPT !.response = 404]
              ELSE IF cancel_rejected(store[t].status)
              THEN [CancelInit EXCEPT !.response = 400,
                                      !.seen = store[t].status]
              ELSE [CancelInit EXCEPT !.pc = "update_get",
                                      !.seen = store[t].status]]
    /\ UNCHANGED <<store, queue, now, api, rejects, w, attempts, log,
                   cancelled, fieldsSet, downloadFailures>>
    /\ UNCHANGED <<analysed, clientVars, scriptVars, ttlVars, request, syncVars, notified, auxVars>>

\* TaskManager.update_task, first half: data = await r.get(key)
cancel_task_update_get(t) ==
    /\ c[t].pc = "update_get"
    /\ c' = [c EXCEPT ![t].pc = "update_setex", ![t].buf = redis_get(t)]
    /\ UNCHANGED <<store, queue, now, api, rejects, w, attempts,
                   log, cancelled, fieldsSet, downloadFailures>>
    /\ UNCHANGED <<analysed, clientVars, scriptVars, ttlVars, request, syncVars, notified, auxVars>>

\* TaskManager.update_task, second half, and the 200 answer of cancel_task
cancel_task_update_setex(t) ==
    /\ c[t].pc = "update_setex"
    /\ IF c[t].buf = <<>>
       THEN UNCHANGED <<store, now, cancelled, fieldsSet, ttlVars>>
       ELSE /\ store' = redis_setex(t,
                                    async_update_task_merge(c[t].buf[1],
                                                            cancel_args,
                                                            now + 1))
            /\ now' = now + 1
            /\ ttl' = [ttl EXCEPT ![t] = ttl_after_setex(@)]
            /\ age' = [age EXCEPT ![t] = 0]
            /\ cancelled' = [cancelled EXCEPT ![t] =
                                \/ @
                                \/ /\ t \in DOMAIN store
                                   /\ store[t].status = PENDING
                                   /\ attempts[t] = 0]
            /\ fieldsSet' = [fieldsSet EXCEPT ![t] =
                                @ \cup FieldsSet(cancel_args)]
    /\ c' = [c EXCEPT ![t].pc = "idle",
                      ![t].buf = <<>>,
                      ![t].response = 200,
                      ![t].wrote = (c[t].buf # <<>>)]
    /\ UNCHANGED <<queue, api, rejects, w, attempts, log,
                   downloadFailures>>
    /\ UNCHANGED <<analysed, clientVars, scriptVars, request, syncVars, notified, auxVars>>

(***************************************************************************)
(* Redis expiry                                                            *)
(***************************************************************************)
\* The key of a task expires task_ttl (7 days) after its last SETEX.  An
\* attempt of analyze_video_task lasts at most task_time_limit (600 s), so
\* the key cannot expire between the first SETEX of an attempt and its end.
\* The step lets the days the key has left go by at once.
expire(t) ==
    /\ t \in DOMAIN store
    /\ \/ w[t].pc \in {"idle", "done"}
       \/ w[t].pc = "downloading"
    /\ store' = redis_expire(t)
    /\ age' = [age EXCEPT ![t] = @ + ttl[t]]
    /\ ttl' = [ttl EXCEPT ![t] = 0]
    /\ UNCHANGED <<queue, now, api, rejects, w, c, attempts, log,
                   cancelled, fieldsSet, downloadFailures>>
    /\ UNCHANGED <<analysed, clientVars, scriptVars, request, syncVars, notified, auxVars>>

(***************************************************************************)
(* Specification                                                           *)
(***************************************************************************)
Next ==
    \/ create_analysis_task_reject
    \/ \E t \in TaskIds :
          \/ create_analysis_task_store(t)
          \/ create_analysis_task_fail(t)
          \/ create_analysis_task_enqueue(t)
          \/ analyze_video_task_load(t)
          \/ update_task_get(t)
          \/ update_task_setex(t)
          \/ download(t)
          \/ analyze(t)
          \/ sync_analysis(t)
          \/ callback_completed(t)
          \/ return_success(t)
          \/ callback_failed(t)
          \/ retry_or_return(t)
          \/ cancel_task_get(t)
          \/ cancel_task_update_get(t)
          \/ cancel_task_update_setex(t)
          \/ expire(t)

Spec == Init /\ [][Next]_vars

(***************************************************************************)
(* generate_script                                                         *)
(***************************************************************************)
\* (variant: a task that failed is accepted as well)
generate_script_check_lenient(data) ==
    IF data = <<>> THEN 404
    ELSE IF data[1].status \notin {COMPLETED, FAILED} THEN 400
    ELSE IF data[1].status = COMPLETED /\ data[1].result = Null THEN 400
    ELSE 200

\* the checks on what tm.get_task returned: 404 if not task, 400 if the
\* status is not COMPLETED, 400 if not task.result, else go on (200)
generate_script_check(data) ==
    IF data = <<>> THEN 404
    ELSE IF data[1].status # COMPLETED THEN 400
    ELSE IF data[1].result = Null THEN 400
    ELSE 200

\* (variant: the stored script is never taken)
script_exists_never(existing) == FALSE

\* if existing_script and existing_script.get("script_data")
script_exists(existing) ==
    existing # <<>> /\ existing[1].script_data # Null

\* one answer of generate_script; "seen" is the task the request found,
\* "generated" and "wrote" tell whether it called the generator and
\* save_script
ScriptAnswer(code, script_id, script, seen, generated, wrote) ==
    [ code |-> code, script_id |-> script_id, script |-> script,
      seen |-> seen, generated |-> generated, wrote |-> wrote ]

\* the generate_script requests for t that are being served
InFlight(t) == {h \in Handlers : g[t][h].pc # "idle"}

\* task = await tm.get_task(request.video_analysis_id) and the three checks
generate_script_get_task(h, t) ==
    /\ g[t][h].pc = "idle"
    /\ Len(answers[t]) + Cardinality(InFlight(t)) < MaxScriptRequests
    /\ LET data == redis_get(t)
           code == generate_script_check(data)
       IN IF code = 200
          THEN /\ g' = [g EXCEPT ![t][h].pc = "get_script", ![t][h].task = data]
               /\ UNCHANGED answers
          ELSE /\ answers' = [answers EXCEPT ![t] =
                                Append(@, ScriptAnswer(code, Null, Null,
                                                       data, FALSE, FALSE))]
               /\ UNCHANGED g
    /\ UNCHANGED <<store, queue, now, api, rejects, w, c, attempts, log,
                   cancelled, fieldsSet, downloadFailures, analysed,
                   clientVars, scripts, scriptIds, settings, ttlVars,
                   request, syncVars, notified, auxVars>>

\* existing_script = await sm.get_script(...): the stored script is
\* returned if there is one; else 500 if no API key is configured
generate_script_get_script(h, t) ==
    /\ g[t][h].pc = "get_script"
    /\ LET existing == IF t \in DOMAIN scripts THEN <<scripts[t]>> ELSE <<>>
       IN IF script_exists(existing)
          THEN /\ answers' = [answers EXCEPT ![t] =
                                Append(@, ScriptAnswer(200,
                                                       existing[1].script_id,
                                                       existing[1].script_data,
                                                       g[t][h].task,
                                                       FALSE, FALSE))]
               /\ g' = [g EXCEPT ![t][h] = ScriptRequestInit]
          ELSE IF settings.gemini_api_key = Null
          THEN /\ answers' = [answers EXCEPT ![t] =
                                Append(@, ScriptAnswer(500, Null, Null,
                                                       g[t][h].task,
                                                       FALSE, FALSE))]
               /\ g' = [g EXCEPT ![t][h] = ScriptRequestInit]
          ELSE /\ g' = [g EXCEPT ![t][h].pc = "generate"]
               /\ UNCHANGED answers
    /\ UNCHANGED <<store, queue, now, api, rejects, w, c, attempts, log,
                   cancelled, fieldsSet, downloadFailures, analysed,
                   clientVars, scripts, scriptIds, settings, ttlVars,
                   request, syncVars, notified, auxVars>>

\* what generate_with_retry can return: the result of an attempt that
\* succeeded, or the failure after the last attempt
RetryResults ==
    {r \in GenerateResults : r.success}
    \cup {exhausted_result(e) : e \in GenerateErrors}

\* (variant: the result of the generation is saved whatever it is)
generation_failed_ignored(gen_result) == FALSE

\* if not gen_result["success"]: raise HTTPException(status_code=500, ...)
generation_failed(gen_result) == ~gen_result.success

\* gen_result = generator.generate_with_retry(...): 500 when it failed,
\* else on to save_script with the script
generate_with_retry(h, t) ==
    /\ g[t][h].pc = "generate"
    /\ \E gen_result \in RetryResults :
          IF generation_failed(gen_result)
          THEN /\ answers' = [answers EXCEPT ![t] =
                                Append(@, ScriptAnswer(500, Null, Null,
                                                       g[t][h].task,
                                                       TRUE, FALSE))]
               /\ g' = [g EXCEPT ![t][h] = ScriptRequestInit]
          ELSE /\ g' = [g EXCEPT ![t][h].pc = "save",
                                 ![t][h].script = gen_result.script]
               /\ UNCHANGED answers
    /\ UNCHANGED <<store, queue, now, api, rejects, w, c, attempts, log,
                   cancelled, fieldsSet, downloadFailures, analysed,
                   clientVars, scripts, scriptIds, settings, ttlVars,
                   request, syncVars, notified, auxVars>>

\* the record ScriptManager.save_script serialises
script_record(script_id, video_analysis_id, script_data, ts) ==
    [ script_id |-> script_id,
      video_analysis_id |-> video_analysis_id,
      script_type |-> "full",
      script_data |-> script_data,
      created_at |-> ts,
      updated_at |-> ts ]

\* script_id = await sm.save_script(...): a fresh id, SETEX of the record
\* under the task id, and the 200 answer
save_script(h, t) ==
    /\ g[t][h].pc = "save"
    /\ scriptIds' = scriptIds + 1
    /\ scripts' = (t :> script_record(scriptIds + 1, t, g[t][h].script, now + 1))
                   @@ scripts
    /\ now' = now + 1
    /\ answers' = [answers EXCEPT ![t] =
                     Append(@, ScriptAnswer(200, scriptIds + 1, g[t][h].script,
                                            g[t][h].task, TRUE, TRUE))]
    /\ g' = [g EXCEPT ![t][h] = ScriptRequestInit]
    /\ UNCHANGED <<store, queue, api, rejects, w, c, attempts, log,
                   cancelled, fieldsSet, downloadFailures, analysed,
                   clientVars, settings, ttlVars, request, syncVars, notified, auxVars>>

\* The key of a script expires script_ttl (30 days) after save_script, which
\* runs within minutes of a read of the task, whose key lives 7 days: the
\* script outlives the task.
expire_script(t) ==
    /\ t \in DOMAIN scripts
    /\ t \notin DOMAIN store
    /\ \A h \in Handlers : g[t][h].pc = "idle"
    /\ scripts' = [k \in DOMAIN scripts \ {t} |-> scripts[k]]
    /\ UNCHANGED <<store, queue, now, api, rejects, w, c, attempts, log,
                   cancelled, fieldsSet, downloadFailures, analysed,
                   clientVars, scriptIds, g, answers, settings, ttlVars,
                   request, syncVars, notified, auxVars>>

\* The task records the script endpoint can find: the record of a task at
\* each stage of an attempt that runs without interference, named by the
\* update_task calls made so far.
SampleStages ==
    [ pending |-> <<>>,
      downloading |-> <<"downloading">>,
      analyzing |-> <<"downloading", "downloaded", "analyzing">>,
      syncing |-> <<"downloading", "downloaded", "analyzing", "analyzed",
                    "syncing">>,
      completed |-> <<"downloading", "downloaded", "analyzing", "analyzed",
                      "syncing", "completed">>,
      failed |-> <<"downloading", "downloaded", "analyzing", "failed">> ]

\* the locals of the job at a site of such an attempt
SampleLocals(site) ==
    [ WorkerInit EXCEPT
        !.pc = site,
        !.video_path = VideoPath,
        !.analysis_result = AnalysisOut,
        !.feishu_record_id = FeishuRecordId,
        !.error_msg = analysis_failure("timeout") ]

RECURSIVE record_after(_, _, _)
\* the record after the update_task calls at the given sites, from time ts
record_after(rec, sites, ts) ==
    IF sites = <<>> THEN rec
    ELSE record_after(update_task_merge(rec,
                                        update_args(SampleLocals(Head(sites))),
                                        ts + 1),
                      Tail(sites), ts + 1)

SampleRecord(t, stage) ==
    record_after(create_task_record(t, "https://www.tiktok.com/@x/video/123",
                                    Null, Null, TRUE, FALSE, 1),
                 SampleStages[stage], 1)

\* any task record, or none, in the store; no script yet; the API key
\* configured or not
InitScript ==
    /\ \E S \in SUBSET TaskIds :
          \E f \in [S -> DOMAIN SampleStages] :
              /\ store = [k \in S |-> SampleRecord(k, f[k])]
              /\ api = [t \in TaskIds |->
                          IF t \in S THEN "queued" ELSE "none"]
    /\ queue = {}
    /\ now = 1 + Len(SampleStages.completed)
    /\ rejects = 0
    /\ w = [t \in TaskIds |-> WorkerInit]
    /\ c = [t \in TaskIds |-> CancelInit]
    /\ attempts = [t \in TaskIds |-> 0]
    /\ log = [t \in TaskIds |-> <<>>]
    /\ cancelled = [t \in TaskIds |-> FALSE]
    /\ fieldsSet = [t \in TaskIds |-> {}]
    /\ downloadFailures = [t \in TaskIds |-> 0]
    /\ analysed = [t \in TaskIds |-> FALSE]
    /\ urlPool = Urls
    /\ poll = [t \in TaskIds |-> PollInit]
    /\ scripts = [k \in {} |-> Null]
    /\ scriptIds = 0
    /\ g = [t \in TaskIds |-> [h \in Handlers |-> ScriptRequestInit]]
    /\ answers = [t \in TaskIds |-> <<>>]
    /\ ttl = [t \in TaskIds |-> IF t \in DOMAIN store THEN task_ttl ELSE 0]
    /\ age = [t \in TaskIds |->
                IF t \in DOMAIN store THEN 0 ELSE NeverWritten]
    /\ request = [t \in TaskIds |->
                    IF t \in DOMAIN store
                    THEN <<[f \in CreationFields \ {"task_id"} |->
                              store[t][f]]>>
                    ELSE <<>>]
    /\ table = [k \in Destinations \X TaskIds |->
                  IF /\ k[1] = "feishu"
                     /\ k[2] \in DOMAIN store
                     /\ store[k[2]].feishu_record_id # Null
                  THEN 1 ELSE 0]
    /\ sync = [k \in Destinations \X TaskIds |-> SyncCallInit]
    /\ notified = [t \in TaskIds |-> <<>>]
    /\ loop = LoopInit
    /\ files = [f \in {} |-> FALSE]
    /\ sweep = [k \in Sweepers |-> SweepInit]
    /\ upd = <<>>
    /\ settings \in {[gemini_api_key |-> "key"], [gemini_api_key |-> Null]}

NextScript ==
    \E t \in TaskIds :
        \/ generate_script_get_task(1, t)
        \/ generate_script_get_script(1, t)
        \/ generate_with_retry(1, t)
        \/ save_script(1, t)
        \/ expire(t)
        \/ expire_script(t)

SpecScript == InitScript /\ [][NextScript]_vars

\* generate-script requests served at the same time, by the coroutines of
\* one API process or by several API processes
NextScriptConcurrent ==
    \E t \in TaskIds :
        \E h \in Handlers :
            \/ generate_script_get_task(h, t)
            \/ generate_script_get_script(h, t)
            \/ generate_with_retry(h, t)
            \/ save_script(h, t)

SpecScriptConcurrent == InitScript /\ [][NextScriptConcurrent]_vars

\* Every step of a running job is eventually taken (the adapters and the
\* store return), a job in the queue is eventually delivered, and a cancel
\* request in flight is eventually answered.
Fairness ==
    \A t \in TaskIds :
        /\ SF_vars(analyze_video_task_load(t))
        /\ WF_vars(update_task_get(t))
        /\ WF_vars(update_task_setex(t))
        /\ WF_vars(download(t))
        /\ WF_vars(analyze(t))
        /\ WF_vars(sync_analysis(t))
        /\ WF_vars(callback_completed(t))
        /\ WF_vars(return_success(t))
        /\ WF_vars(callback_failed(t))
        /\ WF_vars(retry_or_return(t))
        /\ WF_vars(cancel_task_update_get(t))
        /\ WF_vars(cancel_task_update_setex(t))

\* the life of a task whose record does not expire meanwhile
NextLive ==
    \E t \in TaskIds :
        \/ create_analysis_task_store(t)
        \/ create_analysis_task_enqueue(t)
        \/ analyze_video_task_load(t)
        \/ update_task_get(t)
        \/ update_task_setex(t)
        \/ download(t)
        \/ analyze(t)
        \/ sync_analysis(t)
        \/ callback_completed(t)
        \/ return_success(t)
        \/ callback_failed(t)
        \/ retry_or_return(t)
        \/ cancel_task_get(t)
        \/ cancel_task_update_get(t)
        \/ cancel_task_update_setex(t)

SpecLive == Init /\ [][NextLive]_vars /\ Fairness

(***************************************************************************)
(* The HTTP endpoints alone: create, status and cancel requests against a  *)
(* store whose keys expire, with no worker consuming the queue              *)
(***************************************************************************)
\* the TaskStatusResponse that TaskManager.get_task builds from a record
TaskStatusResponse(rec) ==
    [ task_id |-> rec.task_id,
      status |-> rec.status,
      progress |-> rec.progress,
      message |-> rec.message,
      created_at |-> rec.created_at,
      updated_at |-> rec.updated_at,
      result |-> rec.result,
      error |-> rec.error,
      video_path |-> rec.video_path,
      feishu_record_id |-> rec.feishu_record_id,
      notion_page_id |-> rec.notion_page_id ]

\* the answer of get_task_status to what the GET returned: 404 if not task
get_task_status_response(data) ==
    IF data = <<>>
    THEN [code |-> 404, body |-> <<>>]
    ELSE [code |-> 200, body |-> <<TaskStatusResponse(data[1])>>]

\* GET /api/v1/status/{task_id}
get_task_status(t) ==
    /\ poll' = [poll EXCEPT ![t] =
                    [answer |-> get_task_status_response(redis_get(t)),
                     issued |-> api[t] \in {"stored", "queued"}]]
    /\ UNCHANGED <<store, queue, now, api, rejects, w, c, attempts, log,
                   cancelled, fieldsSet, downloadFailures, analysed, urlPool>>
    /\ ttl' = [ttl EXCEPT ![t] = ttl_after_get(@)]
    /\ UNCHANGED <<scriptVars, age, request, syncVars, notified, auxVars>>

InitApi ==
    /\ InitState
    /\ urlPool = Urls \cup LookalikeUrls
    /\ settings = [gemini_api_key |-> "key"]

NextApi ==
    \/ create_analysis_task_reject
    \/ \E t \in TaskIds :
          \/ create_analysis_task_store(t)
          \/ create_analysis_task_fail(t)
          \/ create_analysis_task_enqueue(t)
          \/ get_task_status(t)
          \/ cancel_task_get(t)
          \/ cancel_task_update_get(t)
          \/ cancel_task_update_setex(t)
          \/ expire(t)

SpecApi == InitApi /\ [][NextApi]_vars

(***************************************************************************)
(* The lifetime of a task key, day by day: create, status and cancel       *)
(* requests against a store on which the days pass                         *)
(***************************************************************************)
\* One day passes.  A request is served within milliseconds, so no day
\* passes while a handler is between two of its Redis commands.  Redis
\* deletes a key when the lifetime its last SETEX gave it has run out.
tick ==
    /\ \E t \in TaskIds : ttl[t] > 0
    /\ \A t \in TaskIds : c[t].pc = "idle" /\ api[t] # "stored"
    /\ ttl' = [t \in TaskIds |-> IF ttl[t] > 0 THEN ttl[t] - 1 ELSE 0]
    /\ age' = [t \in TaskIds |-> IF ttl[t] > 0 THEN age[t] + 1 ELSE age[t]]
    /\ store' = [k \in {t \in DOMAIN store : ttl[t] > 1} |-> store[k]]
    /\ UNCHANGED <<queue, now, api, rejects, w, c, attempts, log,
                   cancelled, fieldsSet, downloadFailures>>
    /\ UNCHANGED <<analysed, clientVars, scriptVars, request, syncVars, notified, auxVars>>

NextTtl ==
    \/ tick
    \/ \E t \in TaskIds :
          \/ create_analysis_task_store(t)
          \/ create_analysis_task_enqueue(t)
          \/ get_task_status(t)
          \/ cancel_task_get(t)
          \/ cancel_task_update_get(t)
          \/ cancel_task_update_setex(t)

SpecTtl == Init /\ [][NextTtl]_vars

(***************************************************************************)
(* sync_analysis alone: repeated calls for one task id against each        *)
(* destination, as batch_sync, a second run of a job or an operator make   *)
(***************************************************************************)
\* sync_analysis, first half: the fields are formatted and the destination
\* is searched for a record of the task
sync_analysis_find(d, t) ==
    LET k == <<d, t>> IN
    /\ sync[k].pc = "idle"
    /\ sync[k].calls < MaxSyncCalls
    /\ \E lookup \in RequestOutcomes :
          sync' = [sync EXCEPT ![k] =
                  [pc |-> "write",
                   existing_record_id |->
                       find_record_by_task_id(d, table[k], lookup),
                   calls |-> sync[k].calls + 1,
                   result |-> <<>>]]
    /\ UNCHANGED <<store, queue, now, api, rejects, w, c, attempts, log,
                   cancelled, fieldsSet, downloadFailures>>
    /\ UNCHANGED <<analysed, clientVars, scriptVars, ttlVars, request,
                   table, notified, auxVars>>

\* sync_analysis, second half: update_record if a record was found, else
\* create_record; an exception becomes the result {"success": False}
sync_analysis_write(d, t) ==
    LET k == <<d, t>> IN
    /\ sync[k].pc = "write"
    /\ \E write \in RequestOutcomes :
        LET done == upsert(d, table[k], sync[k].existing_record_id, write) IN
          /\ table' = [table EXCEPT ![k] = done.count]
          /\ sync' = [sync EXCEPT ![k].pc = "idle",
                            ![k].result = <<done.result>>]
    /\ UNCHANGED <<store, queue, now, api, rejects, w, c, attempts, log,
                   cancelled, fieldsSet, downloadFailures>>
    /\ UNCHANGED <<analysed, clientVars, scriptVars, ttlVars, request,
                   notified, auxVars>>

NextSync ==
    \E d \in Destinations, t \in TaskIds :
        \/ sync_analysis_find(d, t)
        \/ sync_analysis_write(d, t)

SpecSync == Init /\ [][NextSync]_vars

(***************************************************************************)
(* generate_with_retry alone, one step per generate call and per sleep     *)
(***************************************************************************)
\* result = self.generate(...): returned at once when it succeeded; else
\* last_error is kept, and the loop sleeps or goes on
generate_with_retry_attempt ==
    /\ loop.pc = "call"
    /\ \E result \in GenerateResults :
          loop' =
            IF result.success
            THEN [loop EXCEPT !.calls = Append(@, result),
                              !.result = <<result>>,
                              !.pc = "returned"]
            ELSE [loop EXCEPT
                    !.calls = Append(@, result),
                    !.last_error = result.error,
                    !.attempt = IF sleeps_after(loop.attempt)
                                THEN @ ELSE @ + 1,
                    !.pc = IF sleeps_after(loop.attempt) THEN "sleep"
                           ELSE IF loop.attempt + 1 < generate_max_retries
                           THEN "call" ELSE "exhausted"]
    /\ UNCHANGED <<store, queue, now, api, rejects, w, c, attempts, log,
                   cancelled, fieldsSet, downloadFailures>>
    /\ UNCHANGED <<analysed, clientVars, scriptVars, ttlVars, request,
                   syncVars, notified, files, sweep, upd>>

\* time.sleep(5 * (attempt + 1)) and the next round of the for loop
generate_with_retry_sleep ==
    /\ loop.pc = "sleep"
    /\ loop' = [loop EXCEPT
                  !.sleeps = Append(@, backoff(loop.attempt)),
                  !.attempt = @ + 1,
                  !.pc = IF loop.attempt + 1 < generate_max_retries
                         THEN "call" ELSE "exhausted"]
    /\ UNCHANGED <<store, queue, now, api, rejects, w, c, attempts, log,
                   cancelled, fieldsSet, downloadFailures>>
    /\ UNCHANGED <<analysed, clientVars, scriptVars, ttlVars, request,
                   syncVars, notified, files, sweep, upd>>

\* the return after the loop
generate_with_retry_exhausted ==
    /\ loop.pc = "exhausted"
    /\ loop' = [loop EXCEPT !.result = <<exhausted_result(loop.last_error)>>,
                            !.pc = "returned"]
    /\ UNCHANGED <<store, queue, now, api, rejects, w, c, attempts, log,
                   cancelled, fieldsSet, downloadFailures>>
    /\ UNCHANGED <<analysed, clientVars, scriptVars, ttlVars, request,
                   syncVars, notified, files, sweep, upd>>

NextRetry ==
    \/ generate_with_retry_attempt
    \/ generate_with_retry_sleep
    \/ generate_with_retry_exhausted

SpecRetry == Init /\ [][NextRetry]_vars

(***************************************************************************)
(* cleanup_old_files: the periodic sweep of the storage directories, one   *)
(* step per file system call, next to another execution of itself          *)
(***************************************************************************)
\* an adapter writes a file into a storage directory
write_file(f) ==
    /\ f \notin DOMAIN files
    /\ files' = (f :> FALSE) @@ files
    /\ UNCHANGED <<store, queue, now, api, rejects, w, c, attempts, log,
                   cancelled, fieldsSet, downloadFailures>>
    /\ UNCHANGED <<analysed, clientVars, scriptVars, ttlVars, request,
                   syncVars, notified, loop, upd, sweep>>

\* 7 days pass over a file; no sweep lasts that long
age_file(f) ==
    /\ f \in DOMAIN files
    /\ ~files[f]
    /\ \A k \in Sweepers : sweep[k].pc \in {"idle", "done", "raised"}
    /\ files' = [files EXCEPT ![f] = TRUE]
    /\ UNCHANGED <<store, queue, now, api, rejects, w, c, attempts, log,
                   cancelled, fieldsSet, downloadFailures>>
    /\ UNCHANGED <<analysed, clientVars, scriptVars, ttlVars, request,
                   syncVars, notified, loop, upd, sweep>>

\* cutoff = datetime.now() - timedelta(days=7); deleted_count = 0
cleanup_old_files_start(k) ==
    /\ sweep[k].pc \in {"idle", "done"}
    /\ sweep' = [sweep EXCEPT ![k] = [SweepInit EXCEPT !.pc = "iterdir",
                                                        !.dir = 1]]
    /\ UNCHANGED <<store, queue, now, api, rejects, w, c, attempts, log,
                   cancelled, fieldsSet, downloadFailures>>
    /\ UNCHANGED <<analysed, clientVars, scriptVars, ttlVars, request,
                   syncVars, notified, loop, upd, files>>

\* for file in path.iterdir(): the entries the directory has now
cleanup_old_files_iterdir(k) ==
    /\ sweep[k].pc = "iterdir"
    /\ sweep' = [sweep EXCEPT
                   ![k].listed = {f \in DOMAIN files :
                                    dir_of(f) = StorageDirs[sweep[k].dir]},
                   ![k].pc = "next"]
    /\ UNCHANGED <<store, queue, now, api, rejects, w, c, attempts, log,
                   cancelled, fieldsSet, downloadFailures>>
    /\ UNCHANGED <<analysed, clientVars, scriptVars, ttlVars, request,
                   syncVars, notified, loop, upd, files>>

\* the next entry and `if file.is_file()`, which is False for an entry that
\* is gone; after the last entry the next directory, or the return
cleanup_old_files_is_file(k) ==
    /\ sweep[k].pc = "next"
    /\ IF sweep[k].listed = {}
       THEN sweep' = [sweep EXCEPT
                        ![k].pc = IF sweep[k].dir < Len(StorageDirs)
                                  THEN "iterdir" ELSE "done",
                        ![k].dir = IF sweep[k].dir < Len(StorageDirs)
                                   THEN @ + 1 ELSE @]
       ELSE \E f \in sweep[k].listed :
               sweep' = [sweep EXCEPT
                           ![k].listed = @ \ {f},
                           ![k].file = f,
                           ![k].pc = IF f \in DOMAIN files
                                     THEN "stat" ELSE "next"]
    /\ UNCHANGED <<store, queue, now, api, rejects, w, c, attempts, log,
                   cancelled, fieldsSet, downloadFailures>>
    /\ UNCHANGED <<analysed, clientVars, scriptVars, ttlVars, request,
                   syncVars, notified, loop, upd, files>>

\* mtime = datetime.fromtimestamp(file.stat().st_mtime); if mtime < cutoff.
\* stat raises FileNotFoundError for a file that is gone, and nothing in
\* cleanup_old_files catches it
cleanup_old_files_stat(k) ==
    /\ sweep[k].pc = "stat"
    /\ sweep' = [sweep EXCEPT
                   ![k].pc = IF sweep[k].file \notin DOMAIN files
                             THEN "raised"
                             ELSE IF files[sweep[k].file] THEN "unlink"
                             ELSE "next"]
    /\ UNCHANGED <<store, queue, now, api, rejects, w, c, attempts, log,
                   cancelled, fieldsSet, downloadFailures>>
    /\ UNCHANGED <<analysed, clientVars, scriptVars, ttlVars, request,
                   syncVars, notified, loop, upd, files>>

\* file.unlink(); deleted_count += 1.  unlink raises FileNotFoundError for
\* a file that is gone
cleanup_old_files_unlink(k) ==
    /\ sweep[k].pc = "unlink"
    /\ IF sweep[k].file \notin DOMAIN files
       THEN /\ sweep' = [sweep EXCEPT ![k].pc = "raised"]
            /\ UNCHANGED files
       ELSE /\ files' = [f \in DOMAIN files \ {sweep[k].file} |-> files[f]]
            /\ sweep' = [sweep EXCEPT ![k].deleted_count = @ + 1,
                                      ![k].pc = "next"]
    /\ UNCHANGED <<store, queue, now, api, rejects, w, c, attempts, log,
                   cancelled, fieldsSet, downloadFailures>>
    /\ UNCHANGED <<analysed, clientVars, scriptVars, ttlVars, request,
                   syncVars, notified, loop, upd>>

NextCleanup ==
    \/ \E f \in FileNames : write_file(f) \/ age_file(f)
    \/ \E k \in Sweepers :
          \/ cleanup_old_files_start(k)
          \/ cleanup_old_files_iterdir(k)
          \/ cleanup_old_files_is_file(k)
          \/ cleanup_old_files_stat(k)
          \/ cleanup_old_files_unlink(k)

SpecCleanup == Init /\ [][NextCleanup]_vars

(***************************************************************************)
(* update_task of the two task managers, called with the same arguments on *)
(* the same stored record                                                  *)
(***************************************************************************)
\* the arguments of an update_task call: each one given or left None
UpdateInputs ==
    [ status : {Null, ANALYZING, FAILED},
      progress : {NoProgress, 0, 40},
      message : {Null, "Analyzing video with Gemini AI..."},
      result : {Null, AnalysisOut},
      error : {Null, "Cancelled"},
      video_path : {Null, VideoPath},
      feishu_record_id : {Null, FeishuRecordId},
      notion_page_id : {Null, "page_1"} ]

\* what the key of the task can hold when update_task is called, with the
\* days it has left: nothing, or the record of a task at some stage
UpdateTargets ==
    {[data |-> <<>>, left |-> 0]}
    \cup {[data |-> <<SampleRecord(t, stage)>>, left |-> left] :
             t \in TaskIds, stage \in DOMAIN SampleStages,
             left \in {1, task_ttl}}

\* one call of each update_task on the same key and with the same
\* arguments, at two different times
update_task_on_both ==
    /\ upd = <<>>
    /\ \E target \in UpdateTargets, u \in UpdateInputs :
          upd' = <<[ data |-> target.data, left |-> target.left, u |-> u,
                     async |-> TaskManager_update_task(
                                   target.data, u, now + 1, target.left),
                     sync |-> SyncTaskManager_update_task(
                                   target.data, u, now + 2, target.left) ]>>
    /\ UNCHANGED <<store, queue, now, api, rejects, w, c, attempts, log,
                   cancelled, fieldsSet, downloadFailures>>
    /\ UNCHANGED <<analysed, clientVars, scriptVars, ttlVars, request,
                   syncVars, notified, loop, files, sweep>>

NextUpdate == update_task_on_both

SpecUpdate == Init /\ [][NextUpdate]_vars

(***************************************************************************)
(* Properties                                                              *)
(***************************************************************************)
Present(t) == t \in DOMAIN store

\* the entries of an attempt's log of one kind
Entries(t, kinds) == SelectSeq(log[t], LAMBDA e : e.k \in kinds)

Called(t, adapter) ==
    \E i \in 1..Len(log[t]) : log[t][i].k = "call" /\ log[t][i].a = adapter

IsPrefix(s1, s2) == Len(s1) <= Len(s2) /\ s1 = SubSeq(s2, 1, Len(s1))

\* C1: once the stored status of a task is Completed or Failed, no later
\* write to the record sets the status to Downloading, Analyzing, Syncing or
\* Completed, neither within an attempt nor across retries.
C1_TerminalStatusIsFinal ==
    [][\A t \in TaskIds :
         ( /\ Present(t)
           /\ store[t].status \in {COMPLETED, FAILED}
           /\ t \in DOMAIN store'
           /\ store'[t] # store[t] )
         => store'[t].status \notin {DOWNLOADING, ANALYZING, SYNCING,
                                     COMPLETED}]_vars

\* C2 (as stated): analyze_video_task runs at most 3 times for one task.
C2_AtMostThreeExecutions == \A t \in TaskIds : attempts[t] <= 3

\* C2 (amended): analyze_video_task runs at most 4 times for one task (the
\* first run and 3 retries), every retry is scheduled with a delay of 60
\* seconds, and once the 4th attempt has failed no job is left scheduled.
C2_AtMostFourExecutions ==
    \A t \in TaskIds :
        /\ attempts[t] <= 4
        /\ \A job \in queue :
              /\ job.retries \in 0..3
              /\ job.retries > 0 => job.countdown = 60
              /\ job.task_id = t => attempts[t] = job.retries
        /\ (w[t].pc = "done" /\ w[t].outcome = "failure")
              => /\ attempts[t] = 4
                 /\ \A job \in queue : job.task_id # t

\* a task whose four attempts have all failed, with nothing left in the queue
C2_FourFailedAttempts ==
    \E t \in TaskIds :
        /\ attempts[t] = 4
        /\ w[t].pc = "done"
        /\ w[t].outcome = "failure"
        /\ queue = {}

\* C3: after a cancellation was accepted for a Pending task whose job is
\* still queued, that job never invokes an adapter and the record stays
\* Failed with the cancellation error for as long as it exists.
C3_CancelledJobDoesNotRun ==
    \A t \in TaskIds :
        cancelled[t] =>
            /\ Entries(t, {"call"}) = <<>>
            /\ Present(t) => /\ store[t].status = FAILED
                             /\ store[t].error = "Cancelled"

\* the statuses other than Pending
NonPending == {DOWNLOADING, ANALYZING, SYNCING, COMPLETED, FAILED}

\* C4: a cancel_task request that finds the task Pending writes status
\* Failed with error "Cancelled" and answers 200; a request that finds any
\* other status is answered with the rejection (HTTP 400) and no step of it
\* changes the stored record.
C4_CancelOnlyPending ==
    [][\A t \in TaskIds :
         /\ (c'[t] # c[t] /\ c'[t].seen \in NonPending)
               => /\ c'[t].response = 400
                  /\ c'[t].pc = "idle"
                  /\ ~c'[t].wrote
                  /\ store' = store
         /\ (c'[t] # c[t] /\ c'[t].seen = PENDING)
               => /\ c'[t].response \in {0, 200}
                  /\ c'[t].response = 0 <=> c'[t].pc # "idle"
         /\ (c'[t].wrote /\ ~c[t].wrote)
               => /\ c[t].seen = PENDING
                  /\ c'[t].response = 200
                  /\ store'[t].status = FAILED
                  /\ store'[t].error = "Cancelled"
                  /\ store'[t].message = "Task cancelled by user"]_vars

\* a first request was accepted and wrote the cancellation, a second one
\* found the task Failed and was rejected, leaving the record as it was
C4_AcceptedThenRejected ==
    \E t \in TaskIds :
        /\ cancelled[t]
        /\ c[t].response = 400
        /\ c[t].seen = FAILED
        /\ Present(t)
        /\ store[t].status = FAILED
        /\ store[t].error = "Cancelled"

\* C5: the cancellation (status Failed, error "Cancelled") is never written
\* over a record whose stored status is Downloading, Analyzing, Syncing or
\* Completed, whatever the interleaving with the worker.
C5_CancelNeverOverwritesClaimedTask ==
    [][\A t \in TaskIds :
         (c'[t].wrote /\ ~c[t].wrote /\ Present(t))
         => store[t].status \notin {DOWNLOADING, ANALYZING, SYNCING,
                                    COMPLETED}]_vars

\* C6: no update_task call loses the write of another one: a field that
\* some completed update_task call has set is set in the stored record.
C6_NoLostUpdate ==
    \A t \in TaskIds :
        Present(t) => \A f \in fieldsSet[t] : store[t][f] # Null

C8_ErrorOnlyWhenFailed ==
    \A t \in TaskIds :
        (Present(t) /\ store[t].status # FAILED) => store[t].error = Null

\* the (status, progress) arguments of the update_task calls of the current
\* attempt that carry a progress value, in order
ProgressCalls(t) ==
    LET es == SelectSeq(log[t], LAMBDA e : /\ e.k \in {"write", "miss"}
                                          /\ e.p # NoProgress)
    IN [i \in 1..Len(es) |-> <<es[i].a, es[i].p>>]

\* the progress values of one attempt, with and without the sync stage
ProgressWithSync ==
    << <<DOWNLOADING, 10>>, <<Null, 30>>, <<ANALYZING, 40>>, <<Null, 70>>,
       <<SYNCING, 80>>, <<COMPLETED, 100>> >>
ProgressWithoutSync ==
    << <<DOWNLOADING, 10>>, <<Null, 30>>, <<ANALYZING, 40>>, <<Null, 70>>,
       <<COMPLETED, 100>> >>

\* C9: within one attempt the progress values the job writes are, in this
\* order, 10 with Downloading, 30 before Analyzing, 40 with Analyzing, 70
\* before the next stage, 80 with Syncing and 100 with Completed (hence
\* non-decreasing), and the progress of every stored record is in 0..100.
C9_ProgressSequence ==
    \A t \in TaskIds :
        /\ Present(t) => store[t].progress \in 0..100
        /\ \/ IsPrefix(ProgressCalls(t), ProgressWithSync)
           \/ IsPrefix(ProgressCalls(t), ProgressWithoutSync)

\* an attempt wrote all six progress values and the record is at 100
C9_AllStagesWritten ==
    \E t \in TaskIds :
        /\ ProgressCalls(t) = ProgressWithSync
        /\ Entries(t, {"miss"}) = <<>>
        /\ Present(t)
        /\ store[t].status = COMPLETED
        /\ store[t].progress = 100

\* C10: a job that succeeded for a task with a sync destination requested
\* has written Syncing with progress 80 and has invoked the sync adapter of
\* every requested destination, Notion included.
C10_EveryRequestedDestinationSynced ==
    \A t \in TaskIds :
        ( /\ w[t].pc = "done"
          /\ w[t].outcome = "success"
          /\ Entries(t, {"miss"}) = <<>>
          /\ Present(t)
          /\ store[t].sync_to_feishu \/ store[t].sync_to_notion )
        => /\ \E i \in 1..Len(log[t]) :
                 log[t][i] = Event("write", SYNCING, 80)
           /\ store[t].sync_to_feishu => Called(t, "feishu")
           /\ store[t].sync_to_notion => Called(t, "notion")

\* the sync call of the attempt failed
SyncFailed(t) ==
    \E i \in 1..Len(log[t]) :
        log[t][i].k = "call" /\ log[t][i].a = "feishu" /\ log[t][i].p = 1

\* the update_task calls of the attempt that carry a status
StatusCalls(t) ==
    LET es == SelectSeq(log[t], LAMBDA e : /\ e.k \in {"write", "miss"}
                                          /\ e.a # Null)
    IN [i \in 1..Len(es) |-> es[i].a]

\* C11: once the sync call of an attempt has failed, the attempt goes on to
\* the Completed update with progress 100 and the analysis result, never to
\* the Failed update nor to a retry; it returns success, and a record it
\* left Completed has progress 100, the result and no Feishu record id.
C11_SyncFailureStillCompletes ==
    \A t \in TaskIds :
        SyncFailed(t) =>
            /\ w[t].pc \in {"completed", "callback_completed", "return",
                            "done"}
            /\ w[t].feishu_record_id = Null
            /\ w[t].analysis_result = AnalysisOut
            /\ FAILED \notin {StatusCalls(t)[i] : i \in 1..Len(StatusCalls(t))}
            /\ Entries(t, {"retry"}) = <<>>
            /\ \A job \in queue : job.task_id # t
            /\ w[t].pc = "done" =>
                  /\ w[t].outcome = "success"
                  /\ StatusCalls(t)[Len(StatusCalls(t))] = COMPLETED
                  /\ ProgressCalls(t)[Len(ProgressCalls(t))] =
                        <<COMPLETED, 100>>
                  /\ (Present(t) /\ store[t].status = COMPLETED) =>
                        /\ store[t].progress = 100
                        /\ store[t].result = AnalysisOut
                        /\ store[t].feishu_record_id = Null

\* an attempt whose sync failed has returned success and left the record
\* Completed with the result and without a record id
C11_CompletedAfterFailedSync ==
    \E t \in TaskIds :
        /\ SyncFailed(t)
        /\ w[t].pc = "done"
        /\ w[t].outcome = "success"
        /\ Present(t)
        /\ store[t].status = COMPLETED
        /\ store[t].progress = 100
        /\ store[t].result = AnalysisOut
        /\ store[t].feishu_record_id = Null

\* the job has loaded the task and is in an attempt, or has ended one
InAttempt(t) == w[t].pc # "idle" /\ w[t].outcome # "not_found"

\* the adapters the attempt has called, in order
AdapterCalls(t) ==
    LET es == Entries(t, {"call"}) IN [i \in 1..Len(es) |-> es[i].a]

\* C12: an attempt for a task created with sync disabled never calls the
\* sync adapter and never writes Syncing; when it succeeds it has called the
\* download and the analysis adapter only and has written Downloading,
\* Analyzing, Completed in this order, and the record of such a task has
\* neither a Feishu record id nor a Notion page id.
C12_NoSyncWhenDisabled ==
    \A t \in TaskIds :
        /\ (InAttempt(t) /\ ~w[t].sync_to_feishu) =>
              /\ ~Called(t, "feishu")
              /\ \A i \in 1..Len(StatusCalls(t)) : StatusCalls(t)[i] # SYNCING
              /\ w[t].feishu_record_id = Null
              /\ (w[t].pc = "done" /\ w[t].outcome = "success") =>
                    /\ AdapterCalls(t) = <<"download", "analyze">>
                    /\ StatusCalls(t) = <<DOWNLOADING, ANALYZING, COMPLETED>>
        /\ (Present(t) /\ ~store[t].sync_to_feishu) =>
              /\ store[t].status # SYNCING
              /\ store[t].feishu_record_id = Null
              /\ store[t].notion_page_id = Null

\* a task with sync disabled has been completed by an attempt that called
\* the two adapters
C12_CompletedWithoutSync ==
    \E t \in TaskIds :
        /\ w[t].pc = "done"
        /\ w[t].outcome = "success"
        /\ ~w[t].sync_to_feishu
        /\ AdapterCalls(t) = <<"download", "analyze">>
        /\ Present(t)
        /\ ~store[t].sync_to_feishu
        /\ store[t].status = COMPLETED
        /\ store[t].feishu_record_id = Null
        /\ store[t].notion_page_id = Null
\* the attempt is over: it returned or scheduled its retry
AttemptEnded(t) == w[t].outcome \in {"success", "failure", "retry"}

\* the callback POSTs of the attempt
Callbacks(t) == Entries(t, {"callback"})

\* what an attempt does about the callback in every state
C13_CallbackState ==
    \A t \in TaskIds :
        /\ Len(Callbacks(t)) <= 1
        /\ (InAttempt(t) /\ w[t].callback_url = Null) => Callbacks(t) = <<>>
        /\ (AttemptEnded(t) /\ w[t].callback_url # Null) =>
              /\ Len(Callbacks(t)) = 1
              /\ Callbacks(t)[1].a =
                    IF w[t].outcome = "success" THEN "completed" ELSE "failed"
        /\ \A i \in 1..Len(Callbacks(t)) :
              (Callbacks(t)[i].a = "completed" /\ Callbacks(t)[i].p = 1) =>
                  /\ w[t].pc \in {"return", "done"}
                  /\ w[t].pc = "done" => w[t].outcome = "success"
                  /\ Entries(t, {"retry"}) = <<>>
                  /\ \A job \in queue : job.task_id # t

\* the step that issues a callback POST leaves the store and the queue alone
C13_CallbackStep ==
    \A t \in TaskIds :
        (Len(Callbacks(t)') > Len(Callbacks(t))) =>
            /\ store' = store
            /\ queue' = queue

\* C13: an attempt for a task with a callback_url issues exactly one
\* callback POST, "completed" after a success and "failed" after a failure,
\* and an attempt for a task without one issues none; the POST, raising or
\* not, changes neither the stored record nor the queue, and a success
\* callback that raised is followed by the success return, not by the
\* Failed update, a second POST or a retry.
C13_OneCallbackPerAttempt == []C13_CallbackState /\ [][C13_CallbackStep]_vars

\* an attempt has returned success after its one callback POST raised
C13_RaisedCallbackThenSuccess ==
    \E t \in TaskIds :
        /\ w[t].pc = "done"
        /\ w[t].outcome = "success"
        /\ w[t].callback_url # Null
        /\ Len(Callbacks(t)) = 1
        /\ Callbacks(t)[1].a = "completed"
        /\ Callbacks(t)[1].p = 1
        /\ Present(t)
        /\ store[t].status = COMPLETED
\* what a status request for an id that was never created is answered
NeverCreatedAnswer == get_task_status_response(<<>>)

\* C14: once a status request for a created task id has been answered as
\* one for a never-created id (not found, no body), which happens when the
\* record has expired, every later status request for that id is answered
\* the same, and cancel_task answers 404 whenever it finds no record.
C14_ExpiredIsNeverCreated ==
    [][\A t \in TaskIds :
          /\ (poll[t].issued /\ poll[t].answer = NeverCreatedAnswer) =>
                poll'[t].answer = NeverCreatedAnswer
          /\ (~Present(t) /\ c[t].pc = "idle" /\ c'[t] # c[t]) =>
                c'[t].response = 404]_vars

\* the host of a URL: what stands between "://" and the next "/", "?",
\* "#" or ":"
url_host(url) ==
    LET starts == {i \in 1..Len(url) - 2 : SubSeq(url, i, i + 2) = "://"}
        first == IF starts = {} THEN 1
                 ELSE 3 + CHOOSE i \in starts : \A k \in starts : i <= k
        stops == {i \in first..Len(url) :
                    SubSeq(url, i, i) \in {"/", "?", "#", ":"}}
        last == IF stops = {} THEN Len(url)
                ELSE (CHOOSE i \in stops : \A k \in stops : i <= k) - 1
    IN SubSeq(url, first, last)

EndsWith(s, d) ==
    Len(s) >= Len(d) /\ SubSeq(s, Len(s) - Len(d) + 1, Len(s)) = d

\* the URL is one of an allowed video platform: its host is the domain or a
\* subdomain of it
UrlOfAllowedDomain(url) ==
    \E d \in {"tiktok.com", "douyin.com"} :
        url_host(url) = d \/ EndsWith(url_host(url), "." \o d)

\* C16: a create request whose URL is not one of an allowed domain is
\* rejected before the task is created: every stored record, and so every
\* enqueued job, is for a URL of tiktok.com or douyin.com.
C16_OnlyAllowedDomainsStored ==
    \A t \in TaskIds :
        /\ Present(t) => UrlOfAllowedDomain(store[t].url)
        /\ (\E job \in queue : job.task_id = t) =>
              (Present(t) => UrlOfAllowedDomain(store[t].url))
\* C15: in every stored record, status Completed comes with a result and
\* progress 100, status Failed comes with an error text, and a result is
\* there only if the analysis adapter has succeeded in some attempt of the
\* task; Pending and the stages in progress carry their own status.
C15_RecordTellsOutcome ==
    \A t \in TaskIds :
        Present(t) =>
            /\ store[t].status \in
                  {PENDING, DOWNLOADING, ANALYZING, SYNCING, COMPLETED, FAILED}
            /\ store[t].status = COMPLETED =>
                  (store[t].result # Null /\ store[t].progress = 100)
            /\ store[t].status = FAILED => store[t].error # Null
            /\ store[t].result # Null => analysed[t]

\* an attempt that failed in the analysis stage has left the record Failed
\* with an error text and without a result
C15_FailedWithErrorNoResult ==
    \E t \in TaskIds :
        /\ Present(t)
        /\ w[t].outcome = "retry"
        /\ Called(t, "analyze")
        /\ store[t].status = FAILED
        /\ store[t].error # Null
        /\ store[t].result = Null
        /\ ~analysed[t]
\* the stages of an attempt, with and without the sync stage
StagesWithSync == <<DOWNLOADING, ANALYZING, SYNCING, COMPLETED>>
StagesWithoutSync == <<DOWNLOADING, ANALYZING, COMPLETED>>

\* a sequence of statuses is a prefix of the stages, or such a prefix that
\* stops before Completed followed by one Failed
StageOrder(sc, stages) ==
    \/ IsPrefix(sc, stages)
    \/ /\ Len(sc) >= 1
       /\ sc[Len(sc)] = FAILED
       /\ IsPrefix(SubSeq(sc, 1, Len(sc) - 1), stages)
       /\ Len(sc) - 1 < Len(stages)

Terminated(t) ==
    /\ w[t].pc = "done"
    /\ \A job \in queue : job.task_id # t
    /\ w[t].outcome = "success" =>
          StatusCalls(t)[Len(StatusCalls(t))] = COMPLETED
    /\ w[t].outcome = "failure" =>
          /\ StatusCalls(t)[Len(StatusCalls(t))] = FAILED
          /\ w[t].retries = max_retries
    /\ Present(t)
    /\ store[t].status \in {COMPLETED, FAILED}
    /\ store[t].status = FAILED => store[t].error # Null

\* C19: a job that has loaded an existing task terminates: it leads to a
\* state where the job has returned after the Completed update, or after
\* the Failed update of the attempt that used up the retries, no job for
\* the task is left in the queue, and the record is Completed or Failed
\* with an error text, not Downloading, Analyzing or Syncing.
C19_JobTerminates ==
    \A t \in TaskIds : InAttempt(t) ~> Terminated(t)

\* the job has returned after four failed attempts and the record is Failed
\* with the error of the last one
C19_FailedForGood ==
    \E t \in TaskIds :
        /\ Terminated(t)
        /\ w[t].outcome = "failure"
        /\ attempts[t] = max_retries + 1
        /\ Present(t)
        /\ store[t].status = FAILED
        /\ store[t].error = w[t].error_msg
\* C17: after a generate-script request for a task has been answered with a
\* script, every later request that finds the task (Completed as before) is
\* answered with the same script id and the same document, without a call
\* of the generator and without a write of the script record; the store
\* keeps the record of the first request.
C17_GenerateScriptIdempotent ==
    \A t \in TaskIds :
        \A i \in 1..Len(answers[t]) : \A j \in 1..Len(answers[t]) :
            (i < j /\ answers[t][i].code = 200 /\ answers[t][j].seen # <<>>)
            => /\ answers[t][j].code = 200
               /\ answers[t][j].script_id = answers[t][i].script_id
               /\ answers[t][j].script = answers[t][i].script
               /\ ~answers[t][j].generated
               /\ ~answers[t][j].wrote
               /\ t \in DOMAIN scripts =>
                     scripts[t].script_id = answers[t][i].script_id

\* two requests in sequence: the first generated and saved the script, the
\* second returned it
C17_SecondRequestReturnsStored ==
    \E t \in TaskIds :
        /\ Len(answers[t]) >= 2
        /\ answers[t][1].code = 200
        /\ answers[t][1].generated
        /\ answers[t][1].wrote
        /\ answers[t][2].code = 200
        /\ answers[t][2].script_id = answers[t][1].script_id
        /\ answers[t][2].script = answers[t][1].script
        /\ ~answers[t][2].generated

\* the task a request found is Completed and has a result
FoundCompleted(seen) ==
    seen # <<>> /\ seen[1].status = COMPLETED /\ seen[1].result # Null

\* what the answers given so far and the request being served tell
C18_AnswersState ==
    \A t \in TaskIds :
        /\ \A h \in Handlers :
              g[t][h].pc \in {"get_script", "generate", "save"} =>
                 FoundCompleted(g[t][h].task)
        /\ \A i \in 1..Len(answers[t]) :
              LET a == answers[t][i] IN
              /\ (a.generated \/ a.wrote) => FoundCompleted(a.seen)
              /\ a.seen = <<>> <=> a.code = 404
              /\ (a.seen # <<>> /\ a.seen[1].status # COMPLETED) =>
                    a.code = 400
              /\ a.code \in {404, 400} => (~a.generated /\ ~a.wrote)

\* a request answered 404 or 400 leaves the script store as it was, and a
\* script record is written by a request that found a Completed task only
C18_AnswerStep ==
    \A t \in TaskIds :
        /\ (Len(answers'[t]) > Len(answers[t])
             /\ answers'[t][Len(answers'[t])].code \in {404, 400}) =>
                (scripts' = scripts /\ scriptIds' = scriptIds)
        /\ (scriptIds' # scriptIds \/ (t \in DOMAIN scripts' /\
                                         t \notin DOMAIN scripts)) =>
                \E h \in Handlers : /\ g[t][h].pc = "save"
                                     /\ FoundCompleted(g[t][h].task)

\* C18: generate-script calls the generator and writes a script record only
\* for a task that its get_task found, Completed and with a result; a
\* missing task is answered 404 and a task in another status 400, and in
\* both cases neither the generator is called nor the script store changed.
C18_ScriptOnlyForCompleted == []C18_AnswersState /\ [][C18_AnswerStep]_vars

\* a request for a Failed task was answered 400 and, once the task had
\* expired, the next one 404, and no script was stored
C18_RejectedTwice ==
    \E t \in TaskIds :
        /\ Len(answers[t]) >= 2
        /\ answers[t][1].code = 400
        /\ answers[t][1].seen # <<>>
        /\ answers[t][1].seen[1].status = FAILED
        /\ answers[t][2].code = 404
        /\ t \notin DOMAIN scripts
        /\ scriptIds = 0
\* what holds of a job that found no record when it loaded the task
C21_AbortState ==
    \A t \in TaskIds :
        w[t].outcome = "not_found" =>
            /\ w[t].pc = "done"
            /\ log[t] = <<>>
            /\ \A job \in queue : job.task_id # t

\* the step in which a job finds no record changes nothing in the store
\* and adds nothing to the queue
C21_AbortStep ==
    \A t \in TaskIds :
        (w[t].pc = "idle" /\ w'[t].outcome = "not_found") =>
            /\ store' = store
            /\ queue' \subseteq queue

\* C21: a job that finds no record when it loads the task returns at once:
\* it makes no update_task call, calls no adapter, sends no callback and
\* schedules no retry, and the load itself leaves the store as it was.
C21_AbortWhenRecordAbsent == []C21_AbortState /\ [][C21_AbortStep]_vars

\* the first job of a task has found the record expired and has returned
C21_AbortedOnExpiredRecord ==
    \E t \in TaskIds :
        /\ w[t].outcome = "not_found"
        /\ w[t].pc = "done"
        /\ attempts[t] = 1
        /\ ~Present(t)
        /\ api[t] = "queued"
\* the position in the attempt's log of the first entry of a kind, or 0
FirstOf(t, kind) ==
    LET is == {i \in 1..Len(log[t]) : log[t][i].k = kind}
    IN IF is = {} THEN 0 ELSE CHOOSE i \in is : \A k \in is : i <= k

\* the position in the attempt's log of the Failed update, or 0
FailedUpdateAt(t) ==
    LET is == {i \in 1..Len(log[t]) :
                 log[t][i].k \in {"write", "miss"} /\ log[t][i].a = FAILED}
    IN IF is = {} THEN 0 ELSE CHOOSE i \in is : \A k \in is : i <= k

\* the failure callback of the attempt, if any
FailedCallbackAt(t) ==
    LET is == {i \in 1..Len(log[t]) :
                 log[t][i].k = "callback" /\ log[t][i].a = "failed"}
    IN IF is = {} THEN 0 ELSE CHOOSE i \in is : \A k \in is : i <= k

\* the order of the failure handling in the log of an attempt, and the
\* record while a retry waits in the queue
C22_FailureOrderState ==
    \A t \in TaskIds :
        /\ FailedCallbackAt(t) > 0 =>
              (FailedUpdateAt(t) > 0 /\ FailedUpdateAt(t) < FailedCallbackAt(t))
        /\ FirstOf(t, "retry") > 0 =>
              /\ FailedUpdateAt(t) > 0
              /\ FailedUpdateAt(t) < FirstOf(t, "retry")
              /\ FailedCallbackAt(t) < FirstOf(t, "retry")
              /\ w[t].callback_url # Null => FailedCallbackAt(t) > 0
        /\ \A job \in queue :
              (job.task_id = t /\ job.retries > 0 /\ Present(t)) =>
                  (store[t].status = FAILED /\ store[t].error # Null)

\* the record at the moment the failure callback is sent and at the moment
\* the retry is scheduled
C22_FailureOrderStep ==
    \A t \in TaskIds :
        (\/ FailedCallbackAt(t)' # FailedCallbackAt(t)
         \/ FirstOf(t, "retry")' > FirstOf(t, "retry")) =>
            (Present(t) =>
                /\ store[t].status = FAILED
                /\ store[t].error # Null
                /\ store[t].message # Null)

\* C22: when the download or the analysis of an attempt fails, the job
\* first makes the update_task call with status Failed, message and error,
\* then sends the failed callback if a callback_url is set, then schedules
\* the retry if retries remain; the stored record is Failed with an error
\* text when the callback is sent, when the retry is scheduled and while
\* the retry waits in the queue.
C22_FailedThenCallbackThenRetry ==
    []C22_FailureOrderState /\ [][C22_FailureOrderStep]_vars

\* an attempt whose download failed has written Failed, sent the callback
\* and scheduled its retry, and the record is Failed
C22_FailureHandled ==
    \E t \in TaskIds :
        /\ FailedUpdateAt(t) > 0
        /\ log[t][FailedUpdateAt(t)].k = "write"
        /\ FailedCallbackAt(t) > FailedUpdateAt(t)
        /\ FirstOf(t, "retry") > FailedCallbackAt(t)
        /\ Present(t)
        /\ store[t].status = FAILED
        /\ store[t].error = w[t].error_msg
\* C23: every attempt, retries included, starts from the beginning: it has
\* none of the previous attempt's results in hand, its first update_task
\* call is Downloading with progress 10 and its first adapter call is the
\* download, also when the record shows that an earlier attempt had
\* downloaded the video.
C23_RetryRunsWholePipeline ==
    \A t \in TaskIds :
        InAttempt(t) =>
            /\ w[t].pc \in {"downloading", "download"} =>
                  (w[t].video_path = Null /\ w[t].analysis_result = Null)
            /\ w[t].pc # "downloading" =>
                  /\ Len(ProgressCalls(t)) >= 1
                  /\ ProgressCalls(t)[1] = <<DOWNLOADING, 10>>
            /\ w[t].pc \notin {"downloading", "download"} =>
                  /\ Len(AdapterCalls(t)) >= 1
                  /\ AdapterCalls(t)[1] = "download"
            /\ Called(t, "analyze") => w[t].video_path # Null

\* a retry has written Downloading and called the download adapter again,
\* and failed there, although the record holds the video path of an earlier
\* attempt
C23_RetryDownloadsAgain ==
    \E t \in TaskIds :
        /\ w[t].retries >= 1
        /\ w[t].pc = "failed"
        /\ AdapterCalls(t) = <<"download">>
        /\ ProgressCalls(t) = << <<DOWNLOADING, 10>> >>
        /\ Present(t)
        /\ store[t].video_path = VideoPath
\* the adapters of an attempt, in the order of the code
AdapterOrder == <<"download", "analyze", "feishu">>

\* C24: the adapter calls of one attempt are, in order, a prefix of
\* download, analysis, sync, each made at most once; the analysis adapter
\* is called only after the download of the same attempt succeeded, and the
\* sync adapter only after the analysis of the same attempt succeeded.
C24_AdaptersInOrder ==
    \A t \in TaskIds :
        /\ IsPrefix(AdapterCalls(t), AdapterOrder)
        /\ Called(t, "analyze") => w[t].video_path # Null
        /\ Called(t, "feishu") =>
              /\ w[t].video_path # Null
              /\ w[t].analysis_result # Null
              /\ w[t].adapter_error = Null

\* an attempt has called the three adapters one after the other
C24_AllThreeAdaptersCalled ==
    \E t \in TaskIds :
        /\ AdapterCalls(t) = AdapterOrder
        /\ w[t].video_path = VideoPath
        /\ w[t].analysis_result = AnalysisOut
\* the stored record after an update_task call with arguments u is the
\* stored record before it with the arguments merged in
MergedInStore(t, u) ==
    /\ Present(t)'
    /\ store'[t] = update_task_merge(store[t], u, store'[t].updated_at)

\* C25: an update_task call that writes changes, in the stored record, the
\* fields passed as non-None and updated_at and nothing else; in particular
\* it leaves the status alone when it carries only a progress, and sets no
\* field back to null.
C25_UpdateChangesOnlyPassedFields ==
    [][\A t \in TaskIds :
          /\ (Present(t) /\ w[t].pc \in UpdateSites /\ w[t].got
               /\ w[t].buf # <<>> /\ ~w'[t].got) =>
                  MergedInStore(t, update_args(w[t]))
          /\ (Present(t) /\ c[t].pc = "update_setex" /\ c[t].buf # <<>>
               /\ c'[t].pc = "idle") =>
                  MergedInStore(t, cancel_args)]_vars

\* the handler create_analysis_task has just written the record of t
Created(t) == api[t] = "none" /\ api'[t] = "stored"

\* C26: create_task writes a record with status Pending, progress 0, the
\* fields result, error, video_path, feishu_record_id and notion_page_id
\* null, created_at equal to updated_at, and the url, callback_url,
\* analysis_prompt and sync flags of the request; the key gets the full
\* task_ttl; and a get of the returned id yields exactly that record.
C26_CreateWritesInitialRecord ==
    [][\A t \in TaskIds : Created(t) =>
          /\ request'[t] # <<>>
          /\ redis_get(t)' # <<>>
          /\ LET rec == redis_get(t)'[1]
                 req == request'[t][1]
             IN /\ rec.task_id = t
                /\ rec.status = PENDING
                /\ rec.progress = 0
                /\ rec.result = Null
                /\ rec.error = Null
                /\ rec.video_path = Null
                /\ rec.feishu_record_id = Null
                /\ rec.notion_page_id = Null
                /\ rec.created_at = rec.updated_at
                /\ rec.url = req.url
                /\ rec.callback_url = req.callback_url
                /\ rec.analysis_prompt = req.analysis_prompt
                /\ rec.sync_to_feishu = req.sync_to_feishu
                /\ rec.sync_to_notion = req.sync_to_notion
                /\ get_task_status_response(redis_get(t)').code = 200
                /\ get_task_status_response(redis_get(t)').body =
                      <<TaskStatusResponse(rec)>>
          /\ ttl'[t] = task_ttl]_vars

\* the record of a request with a callback address has been
\* written and its job is not yet enqueued
C26_RecordCreated ==
    \E t \in TaskIds :
        /\ api[t] = "stored"
        /\ request[t] # <<>>
        /\ Present(t)
        /\ store[t].status = PENDING
        /\ request[t][1].callback_url # Null
        /\ ttl[t] = task_ttl


\* the creation fields a record of task t must have, given the request that
\* created it
AsCreated(t, rec) ==
    /\ rec.task_id = t
    /\ \A f \in CreationFields \ {"task_id"} : rec[f] = request[t][1][f]

\* C27: after creation nothing changes the task_id, url, callback_url,
\* analysis_prompt, sync flags or created_at of the stored record: whenever
\* the record is in the store, through the updates of every attempt, the
\* cancellations and the writes that bring an expired record back, these
\* fields are those create_task wrote.
C27_CreationFieldsImmutable ==
    \A t \in TaskIds : Present(t) =>
        /\ request[t] # <<>>
        /\ AsCreated(t, store[t])

\* a retried job has ended Failed after a cancellation wrote as well, and
\* the record still carries its callback address
C27_UpdatedManyTimes ==
    \E t \in TaskIds :
        /\ Present(t)
        /\ store[t].status = FAILED
        /\ attempts[t] > 1
        /\ c[t].wrote
        /\ store[t].updated_at > store[t].created_at + 4
        /\ store[t].callback_url # Null


\* the jobs of task t waiting in the queue
JobsOf(t) == {job \in queue : job.task_id = t}

\* 7 days have passed since the last successful write of the key of t
Expired(t) == ~Present(t) /\ age[t] >= task_ttl

\* C28 (states): a job is in the queue only for a task whose record has
\* been written and whose create_task returned; a waiting first job whose
\* record is missing lost it to expiry; after a failed create_task there
\* is no job and no execution.
C28_RecordBeforeJobState ==
    \A t \in TaskIds :
        /\ JobsOf(t) # {} => /\ api[t] = "queued"
                             /\ age[t] # NeverWritten
        /\ (\E job \in JobsOf(t) : job.retries = 0) =>
               Present(t) \/ Expired(t)
        /\ api[t] = "failed" => /\ JobsOf(t) = {}
                                /\ attempts[t] = 0
                                /\ w[t].pc = "idle"
                                /\ ~Present(t)

\* C28 (steps): the job is enqueued in a step that finds the record
\* written, and a worker that takes a first job finds the record unless it
\* has expired.
C28_RecordBeforeJobStep ==
    \A t \in TaskIds :
        /\ (JobsOf(t) = {} /\ JobsOf(t)' # {} /\ attempts[t] = 0) =>
               /\ api[t] = "stored"
               /\ age[t] # NeverWritten
        /\ (attempts'[t] = attempts[t] + 1 /\ w'[t].retries = 0
                /\ w'[t].outcome = "not_found") => Expired(t)

\* C28: the record is written before the job is handed to the queue.
C28_RecordWrittenBeforeJobEnqueued ==
    []C28_RecordBeforeJobState /\ [][C28_RecordBeforeJobStep]_vars

\* a worker has taken the first job of a task and found its record
C28_FirstJobFoundRecord ==
    \E t \in TaskIds :
        /\ attempts[t] = 1
        /\ w[t].retries = 0
        /\ w[t].pc = "downloading"
        /\ Present(t)
        /\ api[t] = "queued"


\* a SETEX of the key of t has just succeeded
Written(t) == Present(t)' /\ (~Present(t) \/ store'[t] # store[t])

\* C29 (states): a key is in the store exactly while it has lifetime left;
\* the lifetime left is task_ttl less the days since the last successful
\* write; a key that was written and is gone went when those days reached
\* task_ttl.
C29_SlidingExpiryState ==
    \A t \in TaskIds :
        /\ Present(t) <=> ttl[t] > 0
        /\ Present(t) => /\ age[t] >= 0
                         /\ ttl[t] = task_ttl - age[t]
        /\ (~Present(t) /\ age[t] # NeverWritten) => age[t] = task_ttl

\* C29 (steps): every successful write of create_task or update_task sets
\* the lifetime left to task_ttl, and a get_task leaves it as it was.
C29_SlidingExpiryStep ==
    \A t \in TaskIds :
        /\ Written(t) => ttl'[t] = task_ttl /\ age'[t] = 0
        /\ poll'[t] # poll[t] => ttl'[t] = ttl[t] /\ age'[t] = age[t]

\* C29: the expiry of a task record is sliding.
C29_SlidingExpiry ==
    []C29_SlidingExpiryState /\ [][C29_SlidingExpiryStep]_vars

\* days after an update_task reset the lifetime of a record that had aged,
\* a status request has read the record, which has two days left
C29_ResetRecordAges ==
    \E t \in TaskIds :
        /\ Present(t)
        /\ c[t].wrote
        /\ store[t].status = FAILED
        /\ poll[t].answer.code = 200
        /\ ttl[t] = 2
        /\ age[t] = task_ttl - 2


\* C30: sync_analysis is an idempotent upsert keyed by task id: whatever
\* the search request returned in each call (found, not found, error), a
\* destination never holds more than one record with one task id, and a
\* call made while it holds one leaves it holding one.
C30_AtMostOneRecordPerTaskId ==
    \A k \in Destinations \X TaskIds : table[k] <= 1


\* a generate-script request for t has just been answered
Answered(t) == Len(answers'[t]) = Len(answers[t]) + 1

\* the script record with a document stored for t, as a sequence of length
\* 0 or 1
StoredScript(t) ==
    IF t \in DOMAIN scripts /\ scripts[t].script_data # Null
    THEN <<scripts[t]>> ELSE <<>>

\* C31: whenever a script record with a document exists for a task id, at
\* any time of its 30 days, a generate-script request for that task id is
\* answered with the stored script id and document, without a call of the
\* generator.
C31_StoredScriptAlwaysReturned ==
    [][\A t \in TaskIds : (Answered(t) /\ StoredScript(t) # <<>>) =>
          LET a == answers'[t][Len(answers'[t])] IN
             /\ a.code = 200
             /\ a.script_id = StoredScript(t)[1].script_id
             /\ a.script = StoredScript(t)[1].script_data
             /\ ~a.generated]_vars


\* the answers to generate-script requests for t that ran save_script, and
\* the requests that hold a document of the generator and are about to
Saved(t) == {i \in 1..Len(answers[t]) : answers[t][i].wrote}
Saving(t) == {h \in Handlers : g[t][h].pc = "save"}

\* C32 (states): for one task id at most one request gets a document from
\* the generator and runs save_script.
C32_ScriptCreatedOnceState ==
    \A t \in TaskIds : Cardinality(Saved(t)) + Cardinality(Saving(t)) <= 1

\* C32 (steps): the script id stored for a task id never changes once set.
C32_ScriptCreatedOnceStep ==
    \A t \in TaskIds :
        (t \in DOMAIN scripts /\ t \in DOMAIN scripts') =>
            scripts'[t].script_id = scripts[t].script_id

\* C32: a script record is created at most once per task id, under every
\* interleaving of concurrent generate-script requests for a completed
\* task.
C32_ScriptCreatedOnce ==
    []C32_ScriptCreatedOnceState /\ [][C32_ScriptCreatedOnceStep]_vars


\* the generate calls of the loop that failed
FailedCalls == {i \in 1..Len(loop.calls) : ~loop.calls[i].success}

\* C33: generate_with_retry calls generate at most max_retries (3) times;
\* the first successful result is returned at once, with no call after it;
\* it sleeps 5 * k seconds after the k-th failed attempt for k = 1, 2 and
\* not after the last; when every attempt failed it returns a failure that
\* carries the error of the last attempt.
C33_RetryLoop ==
    /\ Len(loop.calls) <= generate_max_retries
    /\ \A i \in 1..Len(loop.calls) :
          loop.calls[i].success =>
             /\ i = Len(loop.calls)
             /\ loop.pc = "returned"
             /\ loop.result = <<loop.calls[i]>>
    /\ Len(loop.sleeps) <= generate_max_retries - 1
    /\ \A k \in 1..Len(loop.sleeps) : loop.sleeps[k] = 5 * k
    /\ loop.pc = "call" => Len(loop.sleeps) = Len(loop.calls)
    /\ loop.pc = "returned" =>
          /\ Len(loop.calls) >= 1
          /\ Len(loop.sleeps) =
                IF Cardinality(FailedCalls) < generate_max_retries
                THEN Cardinality(FailedCalls)
                ELSE generate_max_retries - 1
          /\ loop.result # <<>>
          /\ ~loop.result[1].success =>
                /\ Cardinality(FailedCalls) = generate_max_retries
                /\ EndsWith(loop.result[1].error,
                            loop.calls[generate_max_retries].error)

\* three attempts failed with different errors and the failure was returned
\* after pauses of 5 and 10 seconds
C33_ThreeAttemptsFailed ==
    /\ loop.pc = "returned"
    /\ Len(loop.calls) = 3
    /\ ~loop.result[1].success
    /\ loop.sleeps = <<5, 10>>
    /\ loop.calls[1].error # loop.calls[3].error
    /\ loop.result[1].error =
          "Failed after 3 attempts. Last error: " \o loop.calls[3].error


\* C34: cleanup_old_files tolerates concurrent deletion: when a file it
\* has listed is removed by another execution before its stat or its
\* unlink, the sweep goes on with the other files and ends without
\* raising.
C34_SweepNeverRaises ==
    \A k \in Sweepers : sweep[k].pc # "raised"


\* an update_task call of the job of t has just ended
UpdateEnded(t) == w[t].pc \in UpdateSites /\ w[t].got /\ ~w'[t].got

\* C35: update_task on a task id with no record writes nothing: a stage
\* update of the pipeline that ends while the store holds no record for the
\* id (never created, or expired) leaves the store without one, so an
\* expired task is not created again by a later stage update.
C35_ExpiredNeverRecreated ==
    [][\A t \in TaskIds :
          (UpdateEnded(t) /\ ~Present(t)) => ~Present(t)']_vars


\* the callback POSTs of a status made for t so far
Notified(t, status) ==
    {i \in 1..Len(notified[t]) : notified[t][i].status = status}

\* the task was created with a callback address
WithCallback(t) == request[t] # <<>> /\ request[t][1].callback_url # Null

\* the attempts of the job of t that have failed and have got past their
\* failure callback: those before the execution under way, each of which
\* ended in a retry, and that execution once it is past it
FailedAttempts(t) ==
    w[t].retries +
      (IF w[t].pc = "retry" \/ w[t].outcome \in {"retry", "failure"}
       THEN 1 ELSE 0)

\* C36: the failed callback is sent on every failed attempt: for a task
\* with a callback address the number of failed notifications is the
\* number of failed attempts; a completed notification comes last, after
\* whatever failed notifications, and at most once.
C36_FailedCallbackOnEveryFailedAttempt ==
    \A t \in TaskIds :
        /\ WithCallback(t) =>
              Cardinality(Notified(t, FAILED)) = FailedAttempts(t)
        /\ ~WithCallback(t) => notified[t] = <<>>
        /\ \A i \in Notified(t, COMPLETED) : i = Len(notified[t])

\* two attempts failed and were notified, the third succeeded and was
\* notified
C36_FailedTwiceThenCompleted ==
    \E t \in TaskIds :
        /\ Len(notified[t]) = 3
        /\ notified[t][1].status = FAILED
        /\ notified[t][2].status = FAILED
        /\ notified[t][3].status = COMPLETED
        /\ w[t].retries = 2
        /\ w[t].outcome = "success"


\* the update_task call that marks the attempt of t Failed has just written
FailedWritten(t) == w[t].pc = "failed" /\ UpdateEnded(t) /\ w[t].buf # <<>>

\* the fields the Failed update does not pass
KeptByFailed ==
    {"progress", "result", "video_path", "feishu_record_id",
     "notion_page_id"}

\* C37: the write that marks an attempt Failed changes only status,
\* message, error and updated_at of the stored record: progress, result,
\* video_path and the sync record ids are after it what they were before
\* it, and the progress of the record it leaves is that of the last stage
\* reached, 10, 30 or 40.
C37_FailedWriteKeepsProgress ==
    [][\A t \in TaskIds : FailedWritten(t) =>
          /\ Present(t)'
          /\ store'[t].status = FAILED
          /\ store'[t].progress \in {10, 30, 40}
          /\ Present(t) =>
                \A f \in KeptByFailed : store'[t][f] = store[t][f]]_vars


\* the attempt of t has issued its Completed update (written, or answered
\* not-found) before any callback POST
CompletedIssuedFirst(t) ==
    \E i \in 1..Len(log[t]) :
        /\ log[t][i].k \in {"write", "miss"}
        /\ log[t][i].a = COMPLETED
        /\ log[t][i].p = 100
        /\ \A j \in 1..Len(log[t]) : log[t][j].k = "callback" => i < j

\* C38: the completed callback is posted only after the update that sets
\* Completed, progress 100 and the result has been issued to the store; it
\* carries the result (and record id) that update passed, which a record
\* still Completed shows; and from the notification on the record of an
\* existing task is never Downloading, Analyzing or Syncing.
C38_CompletedCallbackAfterUpdate ==
    \A t \in TaskIds : \A i \in Notified(t, COMPLETED) :
        /\ CompletedIssuedFirst(t)
        /\ notified[t][i].result = w[t].analysis_result
        /\ notified[t][i].result # Null
        /\ notified[t][i].feishu_record_id = w[t].feishu_record_id
        /\ Present(t) =>
              /\ store[t].status \notin {DOWNLOADING, ANALYZING, SYNCING}
              /\ store[t].status = COMPLETED =>
                    /\ store[t].progress = 100
                    /\ store[t].result = notified[t][i].result
                    /\ store[t].feishu_record_id =
                          notified[t][i].feishu_record_id

\* the completed callback has been posted and the record is Completed with
\* the result and the record id the callback carried
C38_NotifiedAndStored ==
    \E t \in TaskIds :
        /\ Notified(t, COMPLETED) # {}
        /\ Present(t)
        /\ store[t].status = COMPLETED
        /\ store[t].result = notified[t][Len(notified[t])].result
        /\ store[t].feishu_record_id = FeishuRecordId
        /\ w[t].outcome = "success"


\* the latest answer to a generate-script request for t, after the step
LatestAnswer(t) == answers'[t][Len(answers'[t])]

\* C39 (states): a generate-script request answered with an error for a
\* failed generation or a missing API key has not run save_script, and a
\* request that ran save_script stored a document.
C39_FailedGenerationState ==
    \A t \in TaskIds :
        /\ \A i \in 1..Len(answers[t]) :
              /\ answers[t][i].code = 500 => ~answers[t][i].wrote
              /\ answers[t][i].wrote => answers[t][i].script \in ScriptDocs
        /\ t \in DOMAIN scripts => scripts[t].script_data \in ScriptDocs

\* C39 (steps): from its first step to its error answer such a request
\* leaves the script store as it was: no step of a request changes the
\* script store but the save_script of one that is answered 200.
C39_FailedGenerationStep ==
    \A t \in TaskIds :
        /\ (Answered(t) /\ LatestAnswer(t).code = 500) =>
              (scripts' = scripts /\ scriptIds' = scriptIds)
        /\ (InFlight(t) # {} /\ ~Answered(t)) =>
              (scripts' = scripts /\ scriptIds' = scriptIds)

\* C39: when the script generation fails, generate-script returns an error
\* and writes no script record.
C39_FailedGenerationWritesNothing ==
    []C39_FailedGenerationState /\ [][C39_FailedGenerationStep]_vars

\* the generation failed for a request, which was answered 500 after the
\* generator was called, and no script is stored
C39_GenerationFailed ==
    \E t \in TaskIds :
        /\ Len(answers[t]) >= 1
        /\ answers[t][1].code = 500
        /\ answers[t][1].generated
        /\ ~answers[t][1].wrote
        /\ t \notin DOMAIN scripts
        /\ scriptIds = 0


\* the fields of a task record but updated_at
RecordFields ==
    {"task_id", "url", "callback_url", "analysis_prompt", "sync_to_feishu",
     "sync_to_notion", "status", "progress", "message", "created_at",
     "result", "error", "video_path", "feishu_record_id", "notion_page_id"}

\* C40: TaskManager.update_task and SyncTaskManager.update_task are
\* equivalent: on every stored record, or none, and every combination of
\* arguments they return the same value, leave the same record apart from
\* the value of updated_at, and give the key the same lifetime; on a
\* missing key both return False and write nothing.  Each stamps
\* updated_at with the time of its own call.
C40_UpdateTaskEquivalent ==
    \A i \in 1..Len(upd) :
        LET a == upd[i].async
            b == upd[i].sync
        IN /\ a.ret = b.ret
           /\ a.ttl = b.ttl
           /\ Len(a.data) = Len(b.data)
           /\ a.ret <=> upd[i].data # <<>>
           /\ a.ret => /\ a.ttl = task_ttl
                       /\ \A f \in RecordFields :
                             a.data[1][f] = b.data[1][f]
                       /\ a.data[1].updated_at = now + 1
                       /\ b.data[1].updated_at = now + 2
           /\ ~a.ret => a.data = <<>> /\ a.ttl = upd[i].left

\* both were called with progress 0 and a status on a record at progress
\* 40 that had one day left, and both wrote
C40_BothWroteProgressZero ==
    /\ upd # <<>>
    /\ upd[1].u.progress = 0
    /\ upd[1].u.status = FAILED
    /\ upd[1].data # <<>>
    /\ upd[1].data[1].progress = 40
    /\ upd[1].left = 1
    /\ upd[1].async.ret
    /\ upd[1].sync.ret
    /\ upd[1].sync.data[1].progress = 0

====
